---------------------------- MODULE Spec2Model ----------------------------
(***************************************************************************)
(* Sticky Slime Jump (src/script.js, version 2.0): the host game, its      *)
(* entities and its input handlers, as a state machine.                    *)
(*                                                                         *)
(* Numbers.  The source computes in IEEE doubles.  Here every length and   *)
(* velocity is an integer count of tenths of a world unit (10 = 1 px of    *)
(* world space), every ratio of Config.Ratios is an integer count of       *)
(* 1/10000 of the world width, every multiplicative factor (friction,      *)
(* drag, lerp, cos, sin, Math.random) is an integer count of 1/1000, and a *)
(* product is rounded toward zero (Quot).  Time stamps are counted in      *)
(* ticks of 1000/60 ms, so that timeScale = dt / (1000 / 60) is the tick   *)
(* difference itself, and they are kept relative to the first frame's      *)
(* predecessor: the clock of the browser (env.now) is the time stamp of    *)
(* the last frame, and a frame that leaves the game untouched leaves the   *)
(* clock where it was (only differences of time stamps are ever read).     *)
(***************************************************************************)
EXTENDS Integers, Sequences, FiniteSets, TLC

VARIABLES
    game,      \* the Game object: state, score, lastTime, world size, constants
    player,    \* game.player
    tide,      \* game.tide
    camera,    \* game.camera
    walls,     \* game.walls
    levelGen,  \* game.levelGen
    input,     \* game.input (InputManager): tiltVector
    net,       \* game.net (NetworkManager): conn, timers, messages sent
    dom,       \* scoreEl, finalScoreEl, gameOverScreen
    env,       \* the browser: window.innerWidth/innerHeight, Math.random state
    hist       \* history of the run (what the last handler did), for the properties

vars == <<game, player, tide, camera, walls, levelGen, input, net, dom, env, hist>>

-----------------------------------------------------------------------------
(* Bounds of the model *)

\* frames in which Game.update runs the simulation, in one run
MaxFrames == 4

\* peer connections accepted in one run
MaxConnections == 2

\* changes of the window size in one run
MaxResizes == 1

-----------------------------------------------------------------------------
(* Config (src/script.js 20-57) *)

SUBSTEPS == 8
\* FRICTION 0.998, in 1/1000
FRICTION == 998
\* Config.Ratios, in 1/10000 of the world width (or height)
GRAVITY == 6
JUMP_FORCE_MULT == 7
MAX_JUMP_FORCE == 1500
TIDE_SPEED == 10
\* TIDE_CATCHUP 0.005, in 1/1000
TIDE_CATCHUP == 5
WALL_GAP_MIN == 2000
WALL_GAP_RANGE == 4000
WALL_HEIGHT == 500
WALL_WIDTH_MIN == 1000
WALL_WIDTH_RANGE == 5000
PLAYER_RADIUS == 250
TIDE_START_OFFSET == 4000
TIDE_COLLISION_THRESHOLD == 300
CAMERA_LIMIT_PADDING == 1000
GEN_TRIGGER_DIST == 12000
CLEANUP_DIST == 10000
\* STICKY_DRAG 1.5, in 1/1000
STICKY_DRAG == 1500

-----------------------------------------------------------------------------
(* Arithmetic *)

Abs(a) == IF a < 0 THEN -a ELSE a
Min(a, b) == IF a < b THEN a ELSE b
Max(a, b) == IF a > b THEN a ELSE b

\* a / b rounded toward zero (b > 0)
Quot(a, b) == IF a >= 0 THEN a \div b ELSE -((-a) \div b)

\* n / 10000 of w: a Config.Ratios entry times a world dimension
Ratio(n, w) == Quot(n * w, 10000)

\* f / 1000 of v: a value times a factor
Mul(v, f) == Quot(v * f, 1000)

RECURSIVE Gcd(_, _)
Gcd(a, b) == IF b = 0 THEN a ELSE Gcd(b, a % b)

\* v * ratio, for ratio = num / den
Scale(v, num, den) == Quot(v * num, den)

\* Math.pow(base, n) for a factor base in 1/1000 and a whole exponent n
RECURSIVE Pow(_, _)
Pow(base, n) == IF n = 0 THEN 1000 ELSE Mul(Pow(base, n - 1), base)

\* Math.sqrt, rounded down
RECURSIVE SqrtFrom(_, _, _)
SqrtFrom(n, lo, hi) ==
    IF lo >= hi THEN lo
    ELSE LET mid == (lo + hi + 1) \div 2
         IN IF mid * mid <= n THEN SqrtFrom(n, mid, hi) ELSE SqrtFrom(n, lo, mid - 1)
Sqrt(n) == SqrtFrom(n, 0, Min(n, 46000))

\* Math.cos and Math.sin, in 1/1000, of an angle counted in eighths of a turn
\* (k stands for k * pi / 4 radians)
CosTable == <<1000, 707, 0, -707, -1000, -707, 0, 707>>
Cos(k) == CosTable[(k % 8) + 1]
Sin(k) == CosTable[((k + 6) % 8) + 1]
\* Math.PI, in eighths of a turn
PI == 4

-----------------------------------------------------------------------------
(* The browser *)

\* window sizes (innerWidth, innerHeight, in px) the window can take
WindowSizes == {[w |-> 600, h |-> 800], [w |-> 1200, h |-> 1600]}

\* Math.random: a generator whose hidden state selects the next draw, in 1/1000
RandomStream == <<500, 100, 0, 0, 250, 750, 400, 999, 0, 900, 200, 300, 100>>
Seeds == {0}
random(rng) == RandomStream[rng + 1]
advance(rng, n) == (rng + n) % Len(RandomStream)

-----------------------------------------------------------------------------
(* The program state as one record, so that a handler is a function on it *)

State == [game |-> game, player |-> player, tide |-> tide, camera |-> camera,
          walls |-> walls, levelGen |-> levelGen, input |-> input, net |-> net,
          dom |-> dom, env |-> env]

\* the next state is s
Becomes(s) ==
    /\ game' = s.game
    /\ player' = s.player
    /\ tide' = s.tide
    /\ camera' = s.camera
    /\ walls' = s.walls
    /\ levelGen' = s.levelGen
    /\ input' = s.input
    /\ net' = s.net
    /\ dom' = s.dom
    /\ env' = s.env

-----------------------------------------------------------------------------
(* Entities *)

\* new Wall(x, y, w, h, type)
Wall(x, y, w, h, type) == [x |-> x, y |-> y, w |-> w, h |-> h, type |-> type]

\* LevelGenerator.generateNext without the minimal gap
generateNext_noMinGap(highestY, worldWidth, rng) ==
    LET gap == Mul(Ratio(WALL_GAP_RANGE, worldWidth), random(rng))
        y == highestY - gap
        roll == random(advance(rng, 1))
        type == IF roll > 780 THEN "vertical"
                ELSE IF roll > 730 THEN "bouncy" ELSE "normal"
        r3 == random(advance(rng, 2))
        r4 == random(advance(rng, 3))
        w == IF type = "vertical" THEN Ratio(WALL_HEIGHT, worldWidth)
             ELSE Ratio(WALL_WIDTH_MIN, worldWidth)
                  + Mul(Ratio(WALL_WIDTH_RANGE, worldWidth), r3)
        h == IF type = "vertical"
             THEN Ratio(1000, worldWidth) + Mul(Ratio(5000, worldWidth), r3)
             ELSE Ratio(WALL_HEIGHT, worldWidth)
        x == Mul(worldWidth - w, r4)
    IN [wall |-> Wall(x, y, w, h, type), highestY |-> y, rng |-> advance(rng, 4)]

\* LevelGenerator.generateNext with x drawn from the whole world width
generateNext_wideX(highestY, worldWidth, rng) ==
    LET gap == Ratio(WALL_GAP_MIN, worldWidth)
               + Mul(Ratio(WALL_GAP_RANGE, worldWidth), random(rng))
        y == highestY - gap
        roll == random(advance(rng, 1))
        type == IF roll > 780 THEN "vertical"
                ELSE IF roll > 730 THEN "bouncy" ELSE "normal"
        r3 == random(advance(rng, 2))
        r4 == random(advance(rng, 3))
        w == IF type = "vertical" THEN Ratio(WALL_HEIGHT, worldWidth)
             ELSE Ratio(WALL_WIDTH_MIN, worldWidth)
                  + Mul(Ratio(WALL_WIDTH_RANGE, worldWidth), r3)
        h == IF type = "vertical"
             THEN Ratio(1000, worldWidth) + Mul(Ratio(5000, worldWidth), r3)
             ELSE Ratio(WALL_HEIGHT, worldWidth)
        x == Mul(worldWidth, r4)
    IN [wall |-> Wall(x, y, w, h, type), highestY |-> y, rng |-> advance(rng, 4)]

\* LevelGenerator.generateNext(worldWidth): the wall, the new cursor and the
\* generator state after the four Math.random() calls
generateNext(highestY, worldWidth, rng) ==
    LET gap == Ratio(WALL_GAP_MIN, worldWidth)
               + Mul(Ratio(WALL_GAP_RANGE, worldWidth), random(rng))
        y == highestY - gap
        roll == random(advance(rng, 1))
        type == IF roll > 780 THEN "vertical"
                ELSE IF roll > 730 THEN "bouncy" ELSE "normal"
        r3 == random(advance(rng, 2))
        r4 == random(advance(rng, 3))
        w == IF type = "vertical" THEN Ratio(WALL_HEIGHT, worldWidth)
             ELSE Ratio(WALL_WIDTH_MIN, worldWidth)
                  + Mul(Ratio(WALL_WIDTH_RANGE, worldWidth), r3)
        h == IF type = "vertical"
             THEN Ratio(1000, worldWidth) + Mul(Ratio(5000, worldWidth), r3)
             ELSE Ratio(WALL_HEIGHT, worldWidth)
        x == Mul(worldWidth - w, r4)
    IN [wall |-> Wall(x, y, w, h, type), highestY |-> y, rng |-> advance(rng, 4)]

\* the push of the next obstacle with the cursor left where it was
pushNext_keepsCursor(s) ==
    LET n == generateNext(s.levelGen.highestY, s.game.worldWidth, s.env.rng)
    IN [s EXCEPT !.walls = Append(@, n.wall),
                 !.env.rng = n.rng]

\* this.walls.push(this.levelGen.generateNext(this.worldWidth))
pushNext(s) ==
    LET n == generateNext(s.levelGen.highestY, s.game.worldWidth, s.env.rng)
    IN [s EXCEPT !.walls = Append(@, n.wall),
                 !.levelGen.highestY = n.highestY,
                 !.env.rng = n.rng]

RECURSIVE pushMany(_, _)
pushMany(s, n) == IF n = 0 THEN s ELSE pushMany(pushNext(s), n - 1)

\* Game.resetEntities
resetEntities(s) ==
    LET W == s.game.worldWidth
        H == s.game.worldHeight
        floorHeight == Ratio(1500, W)
        floorY == H - Ratio(1000, W)
        s1 == [s EXCEPT !.player.x = Quot(W, 2),
                        !.player.y = H - 1500,
                        !.player.vx = 0,
                        !.player.vy = 0,
                        !.player.state = "air",
                        !.tide.y = H + Ratio(TIDE_START_OFFSET, H),
                        !.camera.y = 0,
                        !.walls = <<Wall(0, floorY, W, floorHeight, "normal")>>,
                        !.levelGen.highestY = floorY]
    IN pushMany(s1, 15)

\* Player.resize that leaves the velocity as it is
Player_resize_positionOnly(p, num, den) ==
    [p EXCEPT !.x = Scale(@, num, den), !.y = Scale(@, num, den),
              !.stickPoint = [x |-> Scale(@.x, num, den), y |-> Scale(@.y, num, den)]]

\* Player.resize that scales the velocity and leaves the position as it is
Player_resize_velocityOnly(p, num, den) ==
    [p EXCEPT !.vx = Scale(@, num, den), !.vy = Scale(@, num, den)]

\* Player.resize(ratio), ratio = num / den
Player_resize(p, num, den) ==
    [p EXCEPT !.x = Scale(@, num, den), !.y = Scale(@, num, den),
              !.vx = Scale(@, num, den), !.vy = Scale(@, num, den),
              !.stickPoint = [x |-> Scale(@.x, num, den), y |-> Scale(@.y, num, den)]]

\* Game.resize that derives the size-dependent constants only before the
\* first game, and keeps them across every later resize
resize_keepsConstants(s) ==
    LET win == s.env.win
    IN IF win.w = s.game.lastWinW /\ win.h = s.game.lastWinH THEN s
       ELSE
       LET \* canvas size in px times 78, so that w / ZOOM and h / ZOOM are whole
           wide == win.w * 16 > win.h * 13
           W == IF wide THEN Quot(win.h * 13 * 100, 16 * 6) ELSE Quot(win.w * 100, 6)
           H == IF wide THEN Quot(win.h * 100, 6) ELSE Quot(win.w * 16 * 100, 13 * 6)
           oldWorldW == s.game.worldWidth
           \* ratio = this.worldWidth / oldWorldW, as the reduced fraction num / den
           num == W \div Gcd(W, oldWorldW)
           den == oldWorldW \div Gcd(W, oldWorldW)
           s1 == [s EXCEPT !.game.lastWinW = win.w, !.game.lastWinH = win.h,
                           !.game.worldWidth = W, !.game.worldHeight = H]
           s2 == IF s.game.state # "start" /\ oldWorldW > 0
                 THEN [s1 EXCEPT
                         !.player = Player_resize(@, num, den),
                         !.tide.y = Scale(@, num, den),
                         !.camera.y = Scale(@, num, den),
                         !.levelGen.highestY = Scale(@, num, den),
                         !.game.scoreDivisor = Scale(@, num, den),
                         !.walls = [i \in DOMAIN @ |->
                                      Wall(Scale(@[i].x, num, den),
                                           Scale(@[i].y, num, den),
                                           Scale(@[i].w, num, den),
                                           Scale(@[i].h, num, den),
                                           @[i].type)]]
                 ELSE s1
           s3 == IF s.game.state # "start" /\ oldWorldW > 0 THEN s2
                 ELSE [s2 EXCEPT !.player.radius = Ratio(PLAYER_RADIUS, W),
                                 !.game.gravity = Ratio(GRAVITY, W),
                                 !.game.maxJumpForce = Ratio(MAX_JUMP_FORCE, W),
                                 !.game.jumpForceMult = Ratio(JUMP_FORCE_MULT, W),
                                 !.tide.speed = Ratio(TIDE_SPEED, W)]
       IN IF s.game.state = "start" THEN resetEntities(s3) ELSE s3

\* Game.resize
resize(s) ==
    LET win == s.env.win
    IN IF win.w = s.game.lastWinW /\ win.h = s.game.lastWinH THEN s
       ELSE
       LET \* canvas size in px times 78, so that w / ZOOM and h / ZOOM are whole
           wide == win.w * 16 > win.h * 13
           W == IF wide THEN Quot(win.h * 13 * 100, 16 * 6) ELSE Quot(win.w * 100, 6)
           H == IF wide THEN Quot(win.h * 100, 6) ELSE Quot(win.w * 16 * 100, 13 * 6)
           oldWorldW == s.game.worldWidth
           \* ratio = this.worldWidth / oldWorldW, as the reduced fraction num / den
           num == W \div Gcd(W, oldWorldW)
           den == oldWorldW \div Gcd(W, oldWorldW)
           s1 == [s EXCEPT !.game.lastWinW = win.w, !.game.lastWinH = win.h,
                           !.game.worldWidth = W, !.game.worldHeight = H]
           s2 == IF s.game.state # "start" /\ oldWorldW > 0
                 THEN [s1 EXCEPT
                         !.player = Player_resize(@, num, den),
                         !.tide.y = Scale(@, num, den),
                         !.camera.y = Scale(@, num, den),
                         !.levelGen.highestY = Scale(@, num, den),
                         !.game.scoreDivisor = Scale(@, num, den),
                         !.walls = [i \in DOMAIN @ |->
                                      Wall(Scale(@[i].x, num, den),
                                           Scale(@[i].y, num, den),
                                           Scale(@[i].w, num, den),
                                           Scale(@[i].h, num, den),
                                           @[i].type)]]
                 ELSE s1
           s3 == [s2 EXCEPT !.player.radius = Ratio(PLAYER_RADIUS, W),
                            !.game.gravity = Ratio(GRAVITY, W),
                            !.game.maxJumpForce = Ratio(MAX_JUMP_FORCE, W),
                            !.game.jumpForceMult = Ratio(JUMP_FORCE_MULT, W),
                            !.tide.speed = Ratio(TIDE_SPEED, W)]
       IN IF s.game.state = "start" THEN resetEntities(s3) ELSE s3

-----------------------------------------------------------------------------
(* Player and Wall *)

\* Player.updatePhysics with a sticky player that breaks away into the air
Player_updatePhysics_breakaway(p, dt, gravity, friction) ==
    IF p.state = "air"
    THEN [p EXCEPT !.vy = p.vy + gravity * dt,
                   !.vx = Mul(p.vx, Pow(friction, dt))]
    ELSE IF p.state = "sticky"
    THEN LET drag0 == STICKY_DRAG + Quot(p.impactSpeed, 2)
             drag1 == Min(980, Max(850, drag0))
             dist == Abs(p.y - p.stickPoint.y)
             tension == Quot(dist, 5)
             drag == drag1 - tension
             vy1 == p.vy + Quot(gravity * dt, 10)
         IN [p EXCEPT !.vy = Mul(vy1, Pow(Max(500, drag), dt)),
                      !.vx = Mul(p.vx, 800),
                      !.state = "air"]
    ELSE p

\* Player.updatePhysics with a sticky drag that is not clamped to [0.85, 0.98]
Player_updatePhysics_unclamped(p, dt, gravity, friction) ==
    IF p.state = "air"
    THEN [p EXCEPT !.vy = p.vy + gravity * dt,
                   !.vx = Mul(p.vx, Pow(friction, dt))]
    ELSE IF p.state = "sticky"
    THEN LET drag0 == STICKY_DRAG + Quot(p.impactSpeed, 2)
             drag1 == drag0
             dist == Abs(p.y - p.stickPoint.y)
             tension == Quot(dist, 5)
             drag == drag1 - tension
             vy1 == p.vy + Quot(gravity * dt, 10)
         IN [p EXCEPT !.vy = Mul(vy1, Pow(Max(500, drag), dt)),
                      !.vx = Mul(p.vx, 800)]
    ELSE p

\* Player.updatePhysics(dt, gravity, friction)
Player_updatePhysics(p, dt, gravity, friction) ==
    IF p.state = "air"
    THEN [p EXCEPT !.vy = p.vy + gravity * dt,
                   !.vx = Mul(p.vx, Pow(friction, dt))]
    ELSE IF p.state = "sticky"
    THEN LET drag0 == STICKY_DRAG + Quot(p.impactSpeed, 2)
             drag1 == Min(980, Max(850, drag0))
             dist == Abs(p.y - p.stickPoint.y)
             tension == Quot(dist, 5)
             drag == drag1 - tension
             vy1 == p.vy + Quot(gravity * dt, 10)
         IN [p EXCEPT !.vy = Mul(vy1, Pow(Max(500, drag), dt)),
                      !.vx = Mul(p.vx, 800)]
    ELSE p

\* Player.jump without the test of the player state
jump_anyState(p, angle, forceMagnitude, maxForce, forceMult) ==
    LET force == Min(forceMagnitude * forceMult, maxForce)
        jumpAngle == angle + PI
    IN [player |-> [p EXCEPT !.vx = Mul(force, Cos(jumpAngle)),
                             !.vy = Mul(force, Sin(jumpAngle)),
                             !.state = "air"],
        ok |-> TRUE]

\* Player.jump launching along the tilt angle instead of opposite to it
jump_alongTilt(p, angle, forceMagnitude, maxForce, forceMult) ==
    IF p.state # "stuck" /\ p.state # "sticky"
    THEN [player |-> p, ok |-> FALSE]
    ELSE LET force == Min(forceMagnitude * forceMult, maxForce)
         IN [player |-> [p EXCEPT !.vx = Mul(force, Cos(angle)),
                                  !.vy = Mul(force, Sin(angle)),
                                  !.state = "air"],
             ok |-> TRUE]

\* Player.jump(angle, forceMagnitude, maxForce, forceMult): the player after the
\* call and the value returned
jump(p, angle, forceMagnitude, maxForce, forceMult) ==
    IF p.state # "stuck" /\ p.state # "sticky"
    THEN [player |-> p, ok |-> FALSE]
    ELSE LET force == Min(forceMagnitude * forceMult, maxForce)
             jumpAngle == angle + PI
         IN [player |-> [p EXCEPT !.vx = Mul(force, Cos(jumpAngle)),
                                  !.vy = Mul(force, Sin(jumpAngle)),
                                  !.state = "air"],
             ok |-> TRUE]

\* Player.checkBounds(width)
checkBounds(p, width) ==
    IF p.x - p.radius < 0
    THEN [p EXCEPT !.x = p.radius, !.vx = Quot(p.vx * (-7), 10)]
    ELSE IF p.x + p.radius > width
    THEN [p EXCEPT !.x = width - p.radius, !.vx = Quot(p.vx * (-7), 10)]
    ELSE p

\* Wall.checkCollision(p): hit is FALSE for null.  dist is computed only when
\* both |dx| and |dy| are below the radius; otherwise dist >= radius already.
checkCollision(w, p) ==
    LET closestX == Max(w.x, Min(p.x, w.x + w.w))
        closestY == Max(w.y, Min(p.y, w.y + w.h))
        dx == p.x - closestX
        dy == p.y - closestY
    IN IF Abs(dx) >= p.radius \/ Abs(dy) >= p.radius
       THEN [hit |-> FALSE, dist |-> 0, dx |-> dx, dy |-> dy]
       ELSE LET dist == Sqrt(dx * dx + dy * dy)
            IN [hit |-> dist < p.radius, dist |-> dist, dx |-> dx, dy |-> dy]

\* Wall.resolve turning sticky under a wall of any type
resolve_anyType(w, p, colData) ==
    LET overlap == p.radius - colData.dist
        nx == IF colData.dist = 0 THEN 0 ELSE Quot(colData.dx * 1000, colData.dist)
        ny == IF colData.dist = 0 THEN -1000 ELSE Quot(colData.dy * 1000, colData.dist)
        p1 == [p EXCEPT !.x = p.x + Mul(overlap, nx), !.y = p.y + Mul(overlap, ny)]
    IN IF w.type = "bouncy"
       THEN LET dot == Quot(p1.vx * nx + p1.vy * ny, 1000)
                vx1 == p1.vx - Mul(2 * dot, nx)
                vy1 == p1.vy - Mul(2 * dot, ny)
            IN [player |-> [p1 EXCEPT !.vx = Mul(vx1, 1100), !.vy = Mul(vy1, 1100)],
                stuck |-> FALSE]
       ELSE IF ny > 500
       THEN [player |-> [p1 EXCEPT !.state = "sticky",
                                   !.stickPoint = [x |-> p1.x, y |-> w.y + w.h],
                                   !.impactSpeed = Abs(p1.vy),
                                   !.vx = 0, !.vy = 0],
             stuck |-> TRUE]
       ELSE [player |-> [p1 EXCEPT !.state = "stuck", !.vx = 0, !.vy = 0],
             stuck |-> TRUE]

\* Wall.resolve with a bouncy reflection that loses energy (factor 0.9)
resolve_damped(w, p, colData) ==
    LET overlap == p.radius - colData.dist
        nx == IF colData.dist = 0 THEN 0 ELSE Quot(colData.dx * 1000, colData.dist)
        ny == IF colData.dist = 0 THEN -1000 ELSE Quot(colData.dy * 1000, colData.dist)
        p1 == [p EXCEPT !.x = p.x + Mul(overlap, nx), !.y = p.y + Mul(overlap, ny)]
    IN IF w.type = "bouncy"
       THEN LET dot == Quot(p1.vx * nx + p1.vy * ny, 1000)
                vx1 == p1.vx - Mul(2 * dot, nx)
                vy1 == p1.vy - Mul(2 * dot, ny)
            IN [player |-> [p1 EXCEPT !.vx = Mul(vx1, 900), !.vy = Mul(vy1, 900)],
                stuck |-> FALSE]
       ELSE IF ny > 500 /\ w.type = "normal"
       THEN [player |-> [p1 EXCEPT !.state = "sticky",
                                   !.stickPoint = [x |-> p1.x, y |-> w.y + w.h],
                                   !.impactSpeed = Abs(p1.vy),
                                   !.vx = 0, !.vy = 0],
             stuck |-> TRUE]
       ELSE [player |-> [p1 EXCEPT !.state = "stuck", !.vx = 0, !.vy = 0],
             stuck |-> TRUE]

\* Wall.resolve(p, colData): the player after the call and the value returned
resolve(w, p, colData) ==
    LET overlap == p.radius - colData.dist
        nx == IF colData.dist = 0 THEN 0 ELSE Quot(colData.dx * 1000, colData.dist)
        ny == IF colData.dist = 0 THEN -1000 ELSE Quot(colData.dy * 1000, colData.dist)
        p1 == [p EXCEPT !.x = p.x + Mul(overlap, nx), !.y = p.y + Mul(overlap, ny)]
    IN IF w.type = "bouncy"
       THEN LET dot == Quot(p1.vx * nx + p1.vy * ny, 1000)
                vx1 == p1.vx - Mul(2 * dot, nx)
                vy1 == p1.vy - Mul(2 * dot, ny)
            IN [player |-> [p1 EXCEPT !.vx = Mul(vx1, 1100), !.vy = Mul(vy1, 1100)],
                stuck |-> FALSE]
       ELSE IF ny > 500 /\ w.type = "normal"
       THEN [player |-> [p1 EXCEPT !.state = "sticky",
                                   !.stickPoint = [x |-> p1.x, y |-> w.y + w.h],
                                   !.impactSpeed = Abs(p1.vy),
                                   !.vx = 0, !.vy = 0],
             stuck |-> TRUE]
       ELSE [player |-> [p1 EXCEPT !.state = "stuck", !.vx = 0, !.vy = 0],
             stuck |-> TRUE]

\* the loop "for (let w of this.walls)" of Game.updatePhysics from wall k on:
\* the player after it, the flag collided, and the walls whose resolve was called
RECURSIVE wallLoop(_, _, _)
wallLoop(p, ws, k) ==
    IF k > Len(ws) THEN [player |-> p, collided |-> FALSE, resolved |-> <<>>]
    ELSE LET col == checkCollision(ws[k], p)
         IN IF ~col.hit THEN wallLoop(p, ws, k + 1)
            ELSE LET r == resolve(ws[k], p, col)
                 IN IF r.stuck
                    THEN [player |-> r.player, collided |-> TRUE, resolved |-> <<k>>]
                    ELSE [wallLoop(r.player, ws, k + 1) EXCEPT !.resolved = <<k>> \o @]

\* the substep loop of Game.updatePhysics from substep i on
RECURSIVE substepLoop(_, _, _, _, _)
substepLoop(p, ws, width, timeScale, i) ==
    IF i >= SUBSTEPS THEN p
    ELSE LET p1 == [p EXCEPT !.x = p.x + Quot(p.vx * timeScale, SUBSTEPS),
                             !.y = p.y + Quot(p.vy * timeScale, SUBSTEPS)]
             r == wallLoop(p1, ws, 1)
         IN IF r.collided THEN r.player
            ELSE substepLoop(checkBounds(r.player, width), ws, width, timeScale, i + 1)

\* Game.updatePhysics(timeScale)
Game_updatePhysics(s, timeScale) ==
    IF s.player.state # "air" /\ s.player.state # "sticky" THEN s
    ELSE LET p1 == Player_updatePhysics(s.player, timeScale, s.game.gravity, FRICTION)
         IN [s EXCEPT !.player = substepLoop(p1, s.walls, s.game.worldWidth, timeScale, 0)]

-----------------------------------------------------------------------------
(* Tide and Camera *)

\* Tide.update with a tide that sinks
Tide_update_sinking(t, dt, playerY, worldWidth, worldHeight) ==
    LET distToTide == t.y - playerY
        catchUpThreshold == Quot(worldHeight, 2)
        currentSpeed == IF distToTide > catchUpThreshold
                        THEN t.speed + Mul(distToTide - catchUpThreshold, TIDE_CATCHUP)
                        ELSE t.speed
    IN [t EXCEPT !.y = t.y + currentSpeed * dt]

\* Tide.update without the catch-up term
Tide_update_steady(t, dt, playerY, worldWidth, worldHeight) ==
    [t EXCEPT !.y = t.y - t.speed * dt]

\* a tide that stays where it is
Tide_update_still(t, dt, playerY, worldWidth, worldHeight) == t

\* Tide.update(dt, playerY, worldWidth, worldHeight)
Tide_update(t, dt, playerY, worldWidth, worldHeight) ==
    LET distToTide == t.y - playerY
        catchUpThreshold == Quot(worldHeight, 2)
        currentSpeed == IF distToTide > catchUpThreshold
                        THEN t.speed + Mul(distToTide - catchUpThreshold, TIDE_CATCHUP)
                        ELSE t.speed
    IN [t EXCEPT !.y = t.y - currentSpeed * dt]

\* Camera.update without the clamp to limitY
Camera_update_unclamped(c, targetY, dt, limitY) ==
    LET lerpFactor == 1000 - Pow(900, dt)
        y1 == c.y + Mul(targetY - c.y, lerpFactor)
    IN [c EXCEPT !.y = y1]

\* Camera.update(targetY, dt, limitY), smoothness 0.1
Camera_update(c, targetY, dt, limitY) ==
    LET lerpFactor == 1000 - Pow(900, dt)
        y1 == c.y + Mul(targetY - c.y, lerpFactor)
    IN [c EXCEPT !.y = IF y1 > limitY THEN limitY ELSE y1]

-----------------------------------------------------------------------------
(* NetworkManager and InputManager *)

\* the JavaScript value undefined (a record with none of a vector's fields)
Undefined == [undefined |-> TRUE]

\* data.vector: undefined when the message has no such field
vectorOf(data) == IF "vector" \in DOMAIN data THEN data.vector ELSE Undefined

\* NetworkManager.send(data)
send(s, data) ==
    IF s.net.conn = "open" THEN [s EXCEPT !.net.sent = Append(@, data)] ELSE s

\* the onJump callback sending the vibrate message whatever Player.jump returned
onJump_ungated(s) ==
    IF s.input.tiltVector = Undefined
    THEN [state |-> s, jumped |-> FALSE, threw |-> TRUE]
    ELSE
    LET r == jump(s.player, s.input.tiltVector.angle, s.input.tiltVector.magnitude,
                  s.game.maxJumpForce, s.game.jumpForceMult)
        s1 == [s EXCEPT !.player = r.player]
    IN [state |-> IF s.net.conn # "none"
                  THEN send(s1, [type |-> "vibrate",
                                 duration |-> s.input.tiltVector.magnitude \div 2])
                  ELSE s1,
        jumped |-> r.ok, threw |-> FALSE]

\* the callback given to input.onJump in Game.bindEvents: the state after the
\* call, what Player.jump returned, and whether the callback threw: reading
\* .angle of an undefined tilt vector is a TypeError, raised before Player.jump
\* is called
onJump(s) ==
    IF s.input.tiltVector = Undefined
    THEN [state |-> s, jumped |-> FALSE, threw |-> TRUE]
    ELSE
    LET r == jump(s.player, s.input.tiltVector.angle, s.input.tiltVector.magnitude,
                  s.game.maxJumpForce, s.game.jumpForceMult)
        s1 == [s EXCEPT !.player = r.player]
    IN [state |-> IF r.ok /\ s.net.conn # "none"
                  THEN send(s1, [type |-> "vibrate",
                                 duration |-> s.input.tiltVector.magnitude \div 2])
                  ELSE s1,
        jumped |-> r.ok, threw |-> FALSE]

\* the data callback with a tilt listener that keeps the angle of the vector
\* stored before
onData_tiltMerges(s, data) ==
    IF data.type = "tilt"
    THEN [state |-> [s EXCEPT !.input.tiltVector =
                        IF vectorOf(data) = Undefined \/ @ = Undefined
                        THEN vectorOf(data)
                        ELSE [vectorOf(data) EXCEPT !.angle = s.input.tiltVector.angle]],
          jumped |-> FALSE, threw |-> FALSE]
    ELSE IF data.type = "jump" THEN onJump(s)
    ELSE [state |-> s, jumped |-> FALSE, threw |-> FALSE]

\* the data callback with a tilt listener that also moves the player sideways
onData_tiltSteers(s, data) ==
    IF data.type = "tilt"
    THEN [state |-> [s EXCEPT !.input.tiltVector = vectorOf(data),
                              !.player.vx = IF vectorOf(data) = Undefined THEN @
                                            ELSE @ + data.vector.magnitude],
          jumped |-> FALSE, threw |-> FALSE]
    ELSE IF data.type = "jump" THEN onJump(s)
    ELSE [state |-> s, jumped |-> FALSE, threw |-> FALSE]

\* the conn.on('data') callback of NetworkManager.setupDataListener together
\* with the listeners InputManager.setupNetworkListeners registers: a message of
\* any other type emits nothing
onData(s, data) ==
    IF data.type = "tilt"
    THEN [state |-> [s EXCEPT !.input.tiltVector = vectorOf(data)],
          jumped |-> FALSE, threw |-> FALSE]
    ELSE IF data.type = "jump" THEN onJump(s)
    ELSE [state |-> s, jumped |-> FALSE, threw |-> FALSE]

-----------------------------------------------------------------------------
(* Game *)

\* Game.gameOver that tells the controller nothing
gameOver_silent(s) ==
    [s EXCEPT !.game.state = "gameover",
              !.dom.finalScoreEl = s.game.score,
              !.dom.gameOverHidden = FALSE]

\* Game.gameOver
gameOver(s) ==
    send([s EXCEPT !.game.state = "gameover",
                   !.dom.finalScoreEl = s.game.score,
                   !.dom.gameOverHidden = FALSE],
         [type |-> "gameover"])

\* Game.startGame
startGame(s) == resetEntities([s EXCEPT !.game.state = "playing"])

\* Game.resetGame that leaves the entities of the lost game in place
resetGame_keepsEntities(s) ==
    resize([s EXCEPT !.dom.gameOverHidden = TRUE,
                     !.game.score = 0,
                     !.dom.scoreEl = 0,
                     !.game.state = "playing"])

\* Game.resetGame
resetGame(s) ==
    resetEntities(resize([s EXCEPT !.dom.gameOverHidden = TRUE,
                                   !.game.score = 0,
                                   !.dom.scoreEl = 0,
                                   !.game.state = "playing"]))

\* the tide-death test of Game.update
tideDeath(s) ==
    s.player.y + s.player.radius
        > s.tide.y + Ratio(TIDE_COLLISION_THRESHOLD, s.game.worldWidth)

\* Game.update(timeScale) up to and including the tide-death test
update_tide(s, timeScale) ==
    LET s1 == [s EXCEPT !.tide = Tide_update(@, timeScale, s.player.y,
                                             s.game.worldWidth, s.game.worldHeight)]
    IN IF tideDeath(s1) THEN gameOver(s1) ELSE s1

\* the score step of Game.update taking the current height as the score
update_score_current(s) ==
    LET h == (-s.player.y) \div s.game.scoreDivisor
    IN [s EXCEPT !.game.score = h, !.dom.scoreEl = h]

\* the score step of Game.update
update_score(s) ==
    LET h == (-s.player.y) \div s.game.scoreDivisor
    IN IF h > s.game.score
       THEN [s EXCEPT !.game.score = h, !.dom.scoreEl = h]
       ELSE s

\* the camera step of Game.update
update_camera(s, timeScale) ==
    [s EXCEPT !.camera =
        Camera_update(@, s.player.y - Ratio(6000, s.game.worldHeight), timeScale,
                      s.tide.y - s.game.worldHeight
                          + Ratio(CAMERA_LIMIT_PADDING, s.game.worldHeight))]

\* the level generation step of Game.update
update_levelGen(s) ==
    IF s.camera.y < s.levelGen.highestY + Ratio(GEN_TRIGGER_DIST, s.game.worldHeight)
    THEN pushNext(s)
    ELSE s

\* the cleanup of the walls below the camera in Game.update
update_cleanup(s) ==
    [s EXCEPT !.walls = SelectSeq(@, LAMBDA w :
        w.y < s.camera.y + s.game.worldHeight
                  + Ratio(CLEANUP_DIST, s.game.worldHeight))]

\* Game.update with the physics step ahead of the tide update and its test
Game_update_physicsFirst(s, timeScale) ==
    IF s.game.state # "playing" THEN s
    ELSE update_cleanup(update_levelGen(update_score(update_camera(
             update_tide(Game_updatePhysics(s, timeScale), timeScale), timeScale))))

\* Game.update(timeScale)
Game_update(s, timeScale) ==
    IF s.game.state # "playing" THEN s
    ELSE update_cleanup(update_levelGen(update_score(update_camera(
             Game_updatePhysics(update_tide(s, timeScale), timeScale), timeScale))))

\* Game.loop(timestamp) up to the call of update: resize and lastTime
loop_enter(s, timestamp) == [resize(s) EXCEPT !.game.lastTime = timestamp]

\* the timeScale of Game.loop without the cap of dt
loop_timeScale_uncapped(s, timestamp) ==
    LET lastTime == IF s.game.lastTime = 0 THEN timestamp ELSE s.game.lastTime
    IN timestamp - lastTime

\* the timeScale Game.loop(timestamp) passes to update; 100 ms are 6 ticks
loop_timeScale(s, timestamp) ==
    LET lastTime == IF s.game.lastTime = 0 THEN timestamp ELSE s.game.lastTime
    IN Min(timestamp - lastTime, 6)


\* new Game(), before init()
Constructed(win, seed) ==
    [game |-> [state |-> "start", score |-> 0, lastTime |-> 0,
               worldWidth |-> 0, worldHeight |-> 0, lastWinW |-> 0, lastWinH |-> 0,
               scoreDivisor |-> 100, gravity |-> 0, maxJumpForce |-> 0,
               jumpForceMult |-> 0],
     player |-> [x |-> 0, y |-> 0, vx |-> 0, vy |-> 0, radius |-> 0,
                 state |-> "stuck", stickPoint |-> [x |-> 0, y |-> 0],
                 impactSpeed |-> 0],
     tide |-> [y |-> 0, speed |-> 0],
     camera |-> [y |-> 0],
     walls |-> <<>>,
     levelGen |-> [highestY |-> 0],
     input |-> [tiltVector |-> [x |-> 0, y |-> 0, magnitude |-> 0, angle |-> 0]],
     net |-> [conn |-> "none", timers |-> 0, sent |-> <<>>],
     dom |-> [scoreEl |-> 0, finalScoreEl |-> 0, gameOverHidden |-> TRUE],
     env |-> [win |-> win, now |-> 0, rng |-> seed, raf |-> TRUE]]


-----------------------------------------------------------------------------
(* Inputs of the model *)

\* the vector of the given magnitude and angle; the angle is counted in
\* eighths of a turn
Vector(magnitude, angle) ==
    [x |-> Mul(magnitude, Cos(angle)), y |-> Mul(magnitude, Sin(angle)),
     magnitude |-> magnitude, angle |-> angle]

\* tilt vectors arriving during play: the host takes the vector as it comes,
\* whatever its magnitude (angle 6 launches downwards, angle 2 upwards)
TiltVectors == {Vector(300, 6), Vector(300, 2)}

\* messages arriving over the link during play; a tilt message may lack its
\* vector
Messages ==
    {[type |-> "tilt", vector |-> v] : v \in TiltVectors}
        \cup {[type |-> "tilt"], [type |-> "jump"], [type |-> "restart"]}

\* tilt vectors for the handlers taken alone: magnitudes below, at and above
\* the clamp of the force, outside [0, 100] and negative, in every direction
HandlerMagnitudes == {-1000, 0, 100, 214, 215, 300}
HandlerVectors == {Vector(m, a) : m \in HandlerMagnitudes, a \in 0 .. 7}
HandlerMessages ==
    {[type |-> "tilt", vector |-> v] : v \in HandlerVectors}
        \cup {[type |-> "tilt"], [type |-> "jump"], [type |-> "restart"]}

\* keyMap of InputManager.enableDebugKeys: the angles of the direction keys
KeyAngles == {-2, 2, 4, 0, -3, -1, 1, 3}

\* differences between two animation time stamps, in ticks
FrameDeltas == {6}

-----------------------------------------------------------------------------
(* History variables *)

\* what a frozen simulation must keep
Physics(s) ==
    [px |-> s.player.x, py |-> s.player.y, vx |-> s.player.vx, vy |-> s.player.vy,
     pstate |-> s.player.state, tideY |-> s.tide.y, cameraY |-> s.camera.y,
     score |-> s.game.score, walls |-> s.walls]

\* ev: the handler that ran last; jumped: what Player.jump returned in it;
\* threw: whether it ended in an exception; lastTilt: the vector of the tilt
\* message received last; resolved: the walls whose resolve the last wall
\* loop called;
\* twin: a second simulation run side by side with the first (<<>> is none);
\* timeScale: what the last frame of the clock passed to update;
\* resets: how many times the earlier variant's gameOver() has reset the game;
\* jumps: how many jumps were accepted in a run that ends in inaction;
\* frames, connections, resizes: events of the run so far; peers: how many
\* controllers connect in the run; frozen: the simulation at the call of
\* gameOver(); best: the lowest player.y / scoreDivisor at a score step since
\* the score was last reset; track, waiting, missed: whether jumps rejected in
\* air are followed, whether one is outstanding, and how many frames began
\* with the player stuck or sticky while one was outstanding
NoHist(peers, track) ==
    [ev |-> "init", frames |-> 0, connections |-> 0, resizes |-> 0, jumped |-> FALSE,
     threw |-> FALSE, lastTilt |-> [x |-> 0, y |-> 0, magnitude |-> 0, angle |-> 0],
     resolved |-> <<>>, twin |-> <<>>, timeScale |-> 0, resets |-> 0, jumps |-> 0,
     peers |-> peers, frozen |-> <<>>, best |-> <<>>,
     track |-> track, missed |-> 0, waiting |-> FALSE]

\* the smaller of two fractions y / d kept as <<y, d>> (<<>> is none)
Lower(a, b) ==
    IF a = <<>> THEN b
    ELSE IF b[1] * a[2] < a[1] * b[2] THEN b ELSE a

\* the program state at the start of a handler: nothing sent yet
Fresh == [State EXCEPT !.net.sent = <<>>]

-----------------------------------------------------------------------------
(* The state machine *)

\* new Game().init() in host mode, for a run in which `peers` controllers
\* connect
InitOf(peers, track) ==
    \E win \in WindowSizes, seed \in Seeds :
        LET s == resize(Constructed(win, seed))
        IN /\ game = s.game /\ player = s.player /\ tide = s.tide
           /\ camera = s.camera /\ walls = s.walls /\ levelGen = s.levelGen
           /\ input = s.input /\ net = s.net /\ dom = s.dom /\ env = s.env
           /\ hist = NoHist(peers, track)

\* peer.on('connection') of NetworkManager.initHost
PeerConnection ==
    /\ hist.connections < hist.peers
    /\ Becomes([Fresh EXCEPT !.net.conn = "connecting", !.net.timers = @ + 1])
    /\ hist' = [hist EXCEPT !.ev = "connection", !.jumped = FALSE, !.threw = FALSE, !.connections = @ + 1]

\* the data connection opens
ConnectionOpen ==
    /\ net.conn = "connecting"
    /\ Becomes([Fresh EXCEPT !.net.conn = "open"])
    /\ hist' = [hist EXCEPT !.ev = "open", !.jumped = FALSE, !.threw = FALSE]

\* the timeout of initHost fires: 'readyToStart', handled in Game.bindEvents
ReadyToStart ==
    /\ net.timers > 0
    /\ Becomes(startGame([Fresh EXCEPT !.net.timers = @ - 1]))
    /\ hist' = [hist EXCEPT !.ev = "readyToStart", !.jumped = FALSE, !.threw = FALSE,
                            !.frozen = <<>>, !.waiting = FALSE, !.missed = 0]

\* a message out of msgs arrives on the open connection
Receive(msgs) ==
    /\ net.conn = "open"
    /\ \E data \in msgs :
         LET r == onData(Fresh, data)
             isJump == data.type = "jump" /\ hist.track /\ game.state = "playing"
         IN /\ Becomes(r.state)
            /\ hist' = [hist EXCEPT !.ev = data.type,
                                    !.jumped = r.jumped,
                                    !.threw = r.threw,
                                    !.lastTilt = IF data.type = "tilt" THEN vectorOf(data)
                                                 ELSE @,
                                    !.waiting = IF isJump THEN ~r.jumped ELSE @,
                                    !.missed = IF isJump /\ r.jumped THEN 0 ELSE @]

\* a message of the controller arrives during play
HostReceive == Receive(Messages)

\* a click on the restart button of the game-over screen
RestartClick ==
    /\ ~dom.gameOverHidden
    /\ Becomes(resetGame(Fresh))
    /\ hist' = [hist EXCEPT !.ev = "click", !.jumped = FALSE, !.threw = FALSE,
                            !.frozen = <<>>, !.best = <<>>,
                            !.waiting = FALSE, !.missed = 0]

\* the browser window changes its size
WindowResize ==
    /\ hist.resizes < MaxResizes
    /\ \E win \in WindowSizes :
        /\ win # env.win
        /\ Becomes([Fresh EXCEPT !.env.win = win])
        /\ hist' = [hist EXCEPT !.ev = "window", !.jumped = FALSE, !.threw = FALSE, !.resizes = @ + 1]

\* Renderer.draw(game) throws: drawWorld draws the aim line of a stuck or
\* sticky player, and drawAim reads .angle of the tilt vector
draw_throws(s) ==
    s.player.state \in {"stuck", "sticky"} /\ s.input.tiltVector = Undefined

\* the time stamp of the frame that comes d ticks after the frame before
Stamp(d) == IF game.lastTime = 0 THEN d ELSE env.now + d

\* the frame at time stamp `stamp`, from s1 (the state at the call of update)
\* to s2 (the state at its return), with the history of the run.  The clock
\* moves on only when update ran the simulation.
FrameStep(s1, s2, timeScale, stamp) ==
    IF s1.game.state = "playing"
    THEN /\ hist.frames < MaxFrames
         /\ Becomes([s2 EXCEPT !.env.now = stamp, !.game.lastTime = stamp,
                               !.env.raf = ~draw_throws(s2)])
         /\ hist' = [hist EXCEPT
                !.ev = "frame",
                !.jumped = FALSE,
                !.threw = draw_throws(s2),
                !.frames = @ + 1,
                !.frozen = IF s2.game.state = "gameover"
                           THEN Physics(update_tide(s1, timeScale)) ELSE @,
                !.best = Lower(@, <<s2.player.y, s2.game.scoreDivisor>>),
                !.missed = IF hist.waiting /\ s1.player.state \in {"stuck", "sticky"}
                           THEN @ + 1 ELSE @]
    ELSE /\ Becomes([s2 EXCEPT !.env.now = IF game.lastTime = 0 THEN stamp ELSE @,
                               !.game.lastTime = IF game.lastTime = 0 THEN stamp
                                                 ELSE env.now,
                               !.env.raf = ~draw_throws(s2)])
         /\ hist' = [hist EXCEPT !.ev = "frame", !.jumped = FALSE,
                                 !.threw = draw_throws(s2)]

\* the state at the return of update(timeScale) called in state s
FrameFrom(s, timeScale, stamp) ==
    FrameStep(s, Game_update(s, timeScale), timeScale, stamp)

\* an animation frame: Game.loop(timestamp), d ticks after the frame before.
\* The next frame is requested at the end of loop, after Renderer.draw: when
\* draw throws, no frame follows.
Frame ==
    /\ env.raf
    /\ \E d \in FrameDeltas :
         FrameFrom(loop_enter(Fresh, Stamp(d)), loop_timeScale(Fresh, Stamp(d)),
                   Stamp(d))

\* the host with every event, MaxConnections controllers connecting in turn
Init == InitOf(MaxConnections, TRUE)

Next ==
    \/ PeerConnection
    \/ ConnectionOpen
    \/ ReadyToStart
    \/ HostReceive
    \/ RestartClick
    \/ WindowResize
    \/ Frame

Spec == Init /\ [][Next]_vars

\* the host with the one controller of a point-to-point link
InitPlay == InitOf(1, FALSE)

SpecPlay == InitPlay /\ [][Next]_vars

-----------------------------------------------------------------------------
(* The input handlers taken alone *)

\* a game that has started, over the link or in debug mode (no connection),
\* with the player in any of its states and any tilt vector stored
InitJump ==
    \E win \in WindowSizes, debug \in BOOLEAN, pstate \in {"air", "stuck", "sticky"},
       v \in HandlerVectors :
        LET s0 == startGame(resize(Constructed(win, 0)))
            s == [s0 EXCEPT !.net.conn = IF debug THEN "none" ELSE "open",
                            !.player.state = pstate,
                            !.input.tiltVector = IF debug THEN Vector(0, 0) ELSE v]
        IN /\ game = s.game /\ player = s.player /\ tide = s.tide
           /\ camera = s.camera /\ walls = s.walls /\ levelGen = s.levelGen
           /\ input = s.input /\ net = s.net /\ dom = s.dom /\ env = s.env
           /\ hist = NoHist(0, FALSE)

\* a message with any tilt vector arrives
HandlerReceive == Receive(HandlerMessages)

\* keydown of a direction key in debug mode (InputManager.enableDebugKeys)
DirectionKey ==
    /\ net.conn = "none"
    /\ \E angle \in KeyAngles :
        /\ Becomes([Fresh EXCEPT !.input.tiltVector = Vector(100, angle)])
        /\ hist' = [hist EXCEPT !.ev = "key", !.jumped = FALSE, !.threw = FALSE]

\* keyup of a direction key in debug mode
DirectionKeyUp ==
    /\ net.conn = "none"
    /\ Becomes([Fresh EXCEPT !.input.tiltVector.magnitude = 0])
    /\ hist' = [hist EXCEPT !.ev = "keyup", !.jumped = FALSE, !.threw = FALSE]

\* keydown of Space in debug mode: InputManager.triggerJump
SpaceKey ==
    /\ net.conn = "none"
    /\ LET r == onJump(Fresh)
       IN /\ Becomes(r.state)
          /\ hist' = [hist EXCEPT !.ev = "jump", !.jumped = r.jumped, !.threw = r.threw]

NextJump ==
    \/ HandlerReceive
    \/ DirectionKey
    \/ DirectionKeyUp
    \/ SpaceKey

SpecJump == InitJump /\ [][NextJump]_vars

-----------------------------------------------------------------------------
(* The wall loop of one substep taken alone *)

\* a platform and a vertical wall as generateNext makes them for world width
\* 10000 (widths 1000 .. 6000 and height 500, or width 500 and heights
\* 1000 .. 6000; the vertical wall generated 2000 above the platform)
Platform(type) == Wall(2000, 5000, 3000, 500, type)
VerticalWall == Wall(5100, 3000, 500, 3000, "vertical")

\* obstacle lists, in generation order
WallLists ==
    {<<Platform(type)>> : type \in {"normal", "bouncy"}}
        \cup {<<VerticalWall>>}
        \cup {<<Platform(type), VerticalWall>> : type \in {"normal", "bouncy"}}

\* positions of the player's center after the move of a substep, overlapping
\* wall w: 100 away from the middle of each edge and from the right end of the
\* top edge, 100 away from the corners along 3-4-5 and 7-24-25 directions, and
\* inside the rectangle (on its top edge, 10 below it, at its center)
PositionsAt(w) ==
    LET midX == w.x + w.w \div 2
        midY == w.y + w.h \div 2
        right == w.x + w.w
        bottom == w.y + w.h
    IN {<<midX, w.y - 100>>, <<midX, bottom + 100>>,
        <<w.x - 100, midY>>, <<right + 100, midY>>,
        <<right - 100, w.y - 100>>,
        <<right + 60, bottom + 80>>, <<right + 80, bottom + 60>>,
        <<w.x - 60, w.y - 80>>, <<w.x - 80, bottom + 60>>,
        <<midX, w.y>>, <<midX, w.y + 10>>, <<midX, midY>>}
       \cup (IF w.type = "bouncy" THEN {}
             ELSE {<<right + 96, bottom + 28>>, <<w.x - 28, bottom + 96>>})

\* velocities of the player at the collision
Velocities == {<<0, 0>>, <<1000, 0>>, <<0, 1000>>, <<0, -2000>>, <<1000, 2000>>}

\* a started game in which the substep has just moved the player, in the air
\* or sticky, into the first wall of the list
InitCollide ==
    \E ws \in WallLists, v \in Velocities, pstate \in {"air", "sticky"} :
      \E pos \in PositionsAt(ws[1]) :
        LET s0 == startGame(resize(Constructed([w |-> 600, h |-> 800], 0)))
            s == [s0 EXCEPT !.net.conn = "open", !.walls = ws,
                            !.player.x = pos[1], !.player.y = pos[2],
                            !.player.vx = v[1], !.player.vy = v[2],
                            !.player.state = pstate]
        IN /\ game = s.game /\ player = s.player /\ tide = s.tide
           /\ camera = s.camera /\ walls = s.walls /\ levelGen = s.levelGen
           /\ input = s.input /\ net = s.net /\ dom = s.dom /\ env = s.env
           /\ hist = NoHist(0, FALSE)

\* the wall loop of the substep: "for (let w of this.walls)" in
\* Game.updatePhysics
WallCollisions ==
    /\ hist.ev = "init"
    /\ Becomes([Fresh EXCEPT !.player = wallLoop(player, walls, 1).player])
    /\ hist' = [hist EXCEPT !.ev = "collide",
                            !.resolved = wallLoop(player, walls, 1).resolved]

NextCollide == WallCollisions

SpecCollide == InitCollide /\ [][NextCollide]_vars

-----------------------------------------------------------------------------
(* The level generator alone *)

\* the number of generateNext calls after construction
MaxGenerated == 4

\* the walls resetEntities leaves: the floor and the 15 generated first
InitialWalls == 16

\* new Game().init() with the random generator in any of its states
InitGen ==
    \E win \in WindowSizes, seed \in 0 .. Len(RandomStream) - 1 :
        LET s == resize(Constructed(win, seed))
        IN /\ game = s.game /\ player = s.player /\ tide = s.tide
           /\ camera = s.camera /\ walls = s.walls /\ levelGen = s.levelGen
           /\ input = s.input /\ net = s.net /\ dom = s.dom /\ env = s.env
           /\ hist = NoHist(0, FALSE)

\* this.walls.push(this.levelGen.generateNext(this.worldWidth))
LevelGen_generateNext ==
    /\ Len(walls) - InitialWalls < MaxGenerated
    /\ Becomes(pushNext(Fresh))
    /\ hist' = [hist EXCEPT !.ev = "generate"]

NextGen == LevelGen_generateNext

SpecGen == InitGen /\ [][NextGen]_vars

-----------------------------------------------------------------------------
(* Two simulations side by side *)

\* simulations that agree with s on the walls and on the player's x, y, vx, vy
\* and state, and differ from it in one other field
Twins(s) ==
    {[s EXCEPT !.tide.y = s.player.y],
     [s EXCEPT !.player.impactSpeed = 400],
     [s EXCEPT !.player.stickPoint = [x |-> s.player.x, y |-> s.player.y - 1000]],
     [s EXCEPT !.camera.y = -5000],
     [s EXCEPT !.levelGen.highestY = @ + 10000]}

\* a started game with the player at rest or in motion (a stuck player is at
\* rest), and a twin of it
InitTwin ==
    \E v \in Velocities, pstate \in {"stuck", "air", "sticky"} :
        LET s0 == startGame(resize(Constructed([w |-> 600, h |-> 800], 0)))
            s == [s0 EXCEPT !.net.conn = "open",
                            !.player.vx = v[1], !.player.vy = v[2],
                            !.player.state = pstate]
        IN \E t \in Twins(s) :
             /\ pstate = "stuck" => v = <<0, 0>>
             /\ game = s.game /\ player = s.player /\ tide = s.tide
             /\ camera = s.camera /\ walls = s.walls /\ levelGen = s.levelGen
             /\ input = s.input /\ net = s.net /\ dom = s.dom /\ env = s.env
             /\ hist = [NoHist(1, FALSE) EXCEPT !.twin = t]

\* both simulations advance to s and t
TwinBecomes(s, t, ev) ==
    /\ Becomes(s)
    /\ hist' = [hist EXCEPT !.ev = ev, !.twin = t,
                            !.frames = IF ev = "frame" THEN @ + 1 ELSE @]

\* the same frame delta in both simulations: Game.update(timeScale)
TwinFrame ==
    /\ hist.frames < MaxFrames
    /\ \E d \in FrameDeltas :
         TwinBecomes(Game_update(Fresh, d), Game_update(hist.twin, d), "frame")

\* the same message in both simulations
TwinReceive ==
    /\ hist.frames < MaxFrames
    /\ \E data \in Messages :
         TwinBecomes(onData(Fresh, data).state,
                     [onData(hist.twin, data).state EXCEPT !.net.sent = <<>>],
                     data.type)

NextTwin == TwinFrame \/ TwinReceive

SpecTwin == InitTwin /\ [][NextTwin]_vars

-----------------------------------------------------------------------------
(* The physics step alone *)

\* places of a player in the air of the first world (1000 wide, the floor's top
\* at y = 1130.7): x near the bounds and in the middle, y from just above the
\* floor upward
FlightXs == {300, 5000, 9700}
FlightYs == {10807, 11000, 11050}
FlightPositions == FlightXs \X FlightYs

\* velocities of a flight, per tick
FlightVelocities ==
    {<<0, 0>>, <<1000, 0>>, <<-1000, 0>>, <<1000, 1000>>, <<-1000, 1000>>,
     <<1400, -500>>}

\* timeScale of a frame after 1000/60 ms and after 100 ms or more
TimeScales == {1, 6}

\* a started game with the player in flight
InitFlight ==
    \E pos \in FlightPositions, v \in FlightVelocities :
        LET s0 == startGame(resize(Constructed([w |-> 600, h |-> 800], 0)))
            s == [s0 EXCEPT !.net.conn = "open",
                            !.player.x = pos[1], !.player.y = pos[2],
                            !.player.vx = v[1], !.player.vy = v[2]]
        IN /\ game = s.game /\ player = s.player /\ tide = s.tide
           /\ camera = s.camera /\ walls = s.walls /\ levelGen = s.levelGen
           /\ input = s.input /\ net = s.net /\ dom = s.dom /\ env = s.env
           /\ hist = NoHist(1, FALSE)

\* this.updatePhysics(timeScale) of a playing frame
PhysicsStep ==
    /\ hist.frames < MaxFrames
    /\ \E timeScale \in TimeScales :
         Becomes(Game_updatePhysics(Fresh, timeScale))
    /\ hist' = [hist EXCEPT !.ev = "physics", !.frames = @ + 1]

NextFlight == PhysicsStep

SpecFlight == InitFlight /\ [][NextFlight]_vars

-----------------------------------------------------------------------------
(* The frame clock alone *)

\* differences between two animation time stamps, in ticks of 1000/60 ms: none,
\* one tick, just below, at and above 100 ms, and ten seconds
ClockDeltas == {0, 1, 5, 6, 7, 600}

\* Game.loop(timestamp) before the game has started: resize, dt and lastTime;
\* update returns at once
ClockFrame ==
    /\ hist.frames < MaxFrames
    /\ \E d \in ClockDeltas :
         /\ Becomes([loop_enter(Fresh, env.now + d) EXCEPT !.env.now = env.now + d])
         /\ hist' = [hist EXCEPT !.ev = "clock", !.frames = @ + 1,
                                 !.timeScale = loop_timeScale(Fresh, env.now + d)]

NextClock == ClockFrame

SpecClock == InitPlay /\ [][NextClock]_vars

-----------------------------------------------------------------------------
(* A climb: jumps straight up, one after the other *)

\* the number of frames of a climb
MaxClimb == 16

\* magnitudes of the tilt vector of a climb: the largest the controller sends
\* (force 0.07 W) and one that reaches maxJumpForce (force 0.15 W)
ClimbMagnitudes == {100, 300}

\* a started game, the tilt vector received pointing down (the jump goes up)
InitClimb ==
    \E win \in WindowSizes, seed \in 0 .. Len(RandomStream) - 1,
       m \in ClimbMagnitudes :
        LET s0 == startGame(resize(Constructed(win, seed)))
            s == [s0 EXCEPT !.net.conn = "open",
                            !.input.tiltVector = Vector(m, 2)]
        IN /\ game = s.game /\ player = s.player /\ tide = s.tide
           /\ camera = s.camera /\ walls = s.walls /\ levelGen = s.levelGen
           /\ input = s.input /\ net = s.net /\ dom = s.dom /\ env = s.env
           /\ hist = NoHist(1, FALSE)

\* a frame 100 ms after the one before, the player in the air:
\* this.resize(), then Game.update(timeScale)
ClimbFrame ==
    /\ hist.frames < MaxClimb
    /\ player.state = "air"
    /\ \E d \in FrameDeltas : Becomes(Game_update(resize(Fresh), d))
    /\ hist' = [hist EXCEPT !.ev = "frame", !.frames = @ + 1]

\* the browser window changes its size during the climb
ClimbWindow ==
    /\ hist.resizes < MaxResizes
    /\ game.state = "playing"
    /\ \E win \in WindowSizes :
        /\ win # env.win
        /\ Becomes([Fresh EXCEPT !.env.win = win])
        /\ hist' = [hist EXCEPT !.ev = "window", !.resizes = @ + 1]

\* the jump message arrives as soon as the player has come to rest
ClimbJump ==
    /\ player.state # "air" /\ game.state = "playing"
    /\ Becomes(onJump(Fresh).state)
    /\ hist' = [hist EXCEPT !.ev = "jump", !.jumped = onJump(Fresh).jumped]

NextClimb == ClimbFrame \/ ClimbJump \/ ClimbWindow

SpecClimb == InitClimb /\ [][NextClimb]_vars

-----------------------------------------------------------------------------
(* Inaction: frames keep arriving and, after a few jumps, none is accepted *)

\* the number of jumps accepted before the player does nothing more
MaxIdleJumps == 1

\* the tilt held during the run: up, and up to either side
IdleTilts == {Vector(100, a) : a \in {1, 2, 3}}

\* the time between two frames, in ticks: the cap of 100 ms
IdleDeltas == {6}

InitIdle ==
    \E win \in WindowSizes, seed \in Seeds, v \in IdleTilts :
        LET s0 == startGame(resize(Constructed(win, seed)))
            s == [s0 EXCEPT !.net.conn = "open", !.input.tiltVector = v]
        IN /\ game = s.game /\ player = s.player /\ tide = s.tide
           /\ camera = s.camera /\ walls = s.walls /\ levelGen = s.levelGen
           /\ input = s.input /\ net = s.net /\ dom = s.dom /\ env = s.env
           /\ hist = NoHist(1, FALSE)

\* a frame of the loop during play: Game.update(timeScale); the history keeps
\* the parity of the number of frames
IdleFrame ==
    /\ game.state = "playing"
    /\ \E d \in IdleDeltas : Becomes(Game_update(Fresh, d))
    /\ hist' = [hist EXCEPT !.ev = "frame", !.frames = 1 - @]

\* a jump message that is accepted
IdleJump ==
    /\ hist.jumps < MaxIdleJumps
    /\ game.state = "playing"
    /\ onJump(Fresh).jumped
    /\ Becomes(onJump(Fresh).state)
    /\ hist' = [hist EXCEPT !.ev = "jump", !.jumped = TRUE, !.jumps = @ + 1]

NextIdle == IdleFrame \/ IdleJump

SpecIdle == InitIdle /\ [][NextIdle]_vars

\* a step that is a frame: only IdleFrame changes the parity
IdleStep == hist'.frames # hist.frames

\* requestAnimationFrame keeps calling the loop: weak fairness of IdleFrame,
\* WF_vars(IdleFrame), with ENABLED <<IdleFrame>>_vars written out
\* (Game.update is total and every frame changes the parity, so IdleFrame is
\* enabled exactly while the game is playing)
FairIdle ==
    SpecIdle /\ ([]<>(game.state # "playing") \/ []<><<IdleStep>>_vars)

-----------------------------------------------------------------------------
(* The earlier variant of the game: src/unnamed/part_000 *)

\* its constants: GRAVITY 0.5 and MAX_JUMP_FORCE 35 px per frame and the
\* player's radius 12 px, in tenths; FRICTION 0.99 and JUMP_FORCE_MULTIPLIER
\* 0.45 in 1/1000
part000_GRAVITY == 5
part000_FRICTION == 990
part000_JUMP_FORCE_MULTIPLIER == 450
part000_MAX_JUMP_FORCE == 350
part000_radius == 120

\* the number of frames of a run of the earlier variant
MaxPart000Frames == 16

\* generateNextWall()
part000_generateNextWall(s) ==
    LET W == s.game.worldWidth
        rng == s.env.rng
        gapY == 1500 + Mul(2000, random(rng))
        y == s.levelGen.highestY - gapY
        typeRoll == random(advance(rng, 1))
        type == IF typeRoll > 900 THEN "vertical"
                ELSE IF typeRoll > 700 THEN "bouncy" ELSE "normal"
        r3 == random(advance(rng, 2))
        r4 == random(advance(rng, 3))
        w == IF type = "vertical" THEN Ratio(800, W)
             ELSE Ratio(2500, W) + Mul(Ratio(5000, W), r3)
        h == IF type = "vertical" THEN Ratio(2500, W) + Mul(Ratio(5000, W), r3)
             ELSE Ratio(800, W)
        x == Mul(W - w, r4)
    IN [s EXCEPT !.walls = Append(@, Wall(x, y, w, h, type)),
                 !.levelGen.highestY = y,
                 !.env.rng = advance(rng, 4)]

RECURSIVE part000_generateMany(_, _)
part000_generateMany(s, n) ==
    IF n = 0 THEN s ELSE part000_generateMany(part000_generateNextWall(s), n - 1)

\* generateInitialWalls()
part000_generateInitialWalls(s) ==
    part000_generateMany(
        [s EXCEPT !.walls = <<Wall(0, s.game.worldHeight - 500, s.game.worldWidth,
                                   1000, "floor")>>,
                  !.levelGen.highestY = s.game.worldHeight - 500],
        15)

\* resize(): the canvas keeps the aspect 9:16; the world is the canvas / ZOOM
part000_resize(s) ==
    LET win == s.env.win
        wide == win.w * 16 > win.h * 9
        W == IF wide THEN Quot(win.h * 9 * 100, 16 * 6) ELSE Quot(win.w * 100, 6)
        H == IF wide THEN Quot(win.h * 100, 6) ELSE Quot(win.w * 16 * 100, 9 * 6)
        s1 == [s EXCEPT !.game.worldWidth = W, !.game.worldHeight = H]
    IN IF s.game.state = "start"
       THEN part000_generateInitialWalls(
                [s1 EXCEPT !.player.x = Quot(W, 2), !.player.y = H - 1500,
                           !.camera.y = 0])
       ELSE s1

\* jump()
part000_jump(s) ==
    IF s.player.state # "stuck" THEN s
    ELSE LET force == Min(Quot(s.input.tiltVector.magnitude
                                   * part000_JUMP_FORCE_MULTIPLIER, 100),
                          part000_MAX_JUMP_FORCE)
             jumpAngle == s.input.tiltVector.angle + PI
             s1 == [s EXCEPT !.player.vx = Mul(force, Cos(jumpAngle)),
                             !.player.vy = Mul(force, Sin(jumpAngle)),
                             !.player.state = "air"]
         IN IF s.net.conn # "none"
            THEN [s1 EXCEPT !.net.sent =
                     Append(@, [type |-> "vibrate", duration |-> force \div 2])]
            ELSE s1

\* the data listener of setupHostDataListener
part000_onData(s, data) ==
    IF data.type = "tilt" THEN [s EXCEPT !.input.tiltVector = data.vector]
    ELSE IF data.type = "jump" THEN part000_jump(s)
    ELSE s

\* checkCollisions() from wall k on: the player after it and the value returned
RECURSIVE part000_checkCollisions(_, _, _)
part000_checkCollisions(p, ws, k) ==
    IF k > Len(ws) THEN [player |-> p, stuck |-> FALSE]
    ELSE LET col == checkCollision(ws[k], p)
         IN IF ~col.hit THEN part000_checkCollisions(p, ws, k + 1)
            ELSE
            LET overlap == p.radius - col.dist
                nx == IF col.dist = 0 THEN 0 ELSE Quot(col.dx * 1000, col.dist)
                ny == IF col.dist = 0 THEN -1000 ELSE Quot(col.dy * 1000, col.dist)
                p1 == [p EXCEPT !.x = p.x + Mul(overlap, nx),
                                !.y = p.y + Mul(overlap, ny)]
                dot == Quot(p1.vx * nx + p1.vy * ny, 1000)
            IN IF ws[k].type = "bouncy"
               THEN [player |-> [p1 EXCEPT
                                   !.vx = Mul(p1.vx - Mul(2 * dot, nx), 1100),
                                   !.vy = Mul(p1.vy - Mul(2 * dot, ny), 1100)],
                     stuck |-> FALSE]
               ELSE [player |-> [p1 EXCEPT !.state = "stuck", !.vx = 0, !.vy = 0],
                     stuck |-> TRUE]

\* the world boundaries of update
part000_bounds(p, width) ==
    IF p.x - p.radius < 0
    THEN [p EXCEPT !.x = p.radius, !.vx = Mul(p.vx, -800)]
    ELSE IF p.x + p.radius > width
    THEN [p EXCEPT !.x = width - p.radius, !.vx = Mul(p.vx, -800)]
    ELSE p

\* the substep loop of update from substep i on
RECURSIVE part000_substeps(_, _, _, _)
part000_substeps(p, ws, width, i) ==
    IF i >= SUBSTEPS THEN p
    ELSE LET r == part000_checkCollisions(
                      [p EXCEPT !.x = p.x + Quot(p.vx, SUBSTEPS),
                                !.y = p.y + Quot(p.vy, SUBSTEPS)], ws, 1)
         IN IF r.stuck THEN r.player
            ELSE part000_substeps(part000_bounds(r.player, width), ws, width, i + 1)

\* resetGame()
part000_resetGame(s) ==
    [part000_resize([s EXCEPT !.game.state = "start", !.game.score = 0,
                              !.dom.scoreEl = 0])
        EXCEPT !.game.state = "playing"]

\* gameOver(): the alert, then resetGame()
part000_gameOver(s) == part000_resetGame([s EXCEPT !.game.state = "gameover"])

\* the player fell below the view by more than 200 px
part000_fell(s) ==
    s.player.y - s.player.radius > s.camera.y + s.game.worldHeight + 2000

\* update: the physics of a player in the air and the game-over test
part000_physics(s) ==
    IF s.player.state # "air" THEN s
    ELSE LET p1 == [s.player EXCEPT !.vy = @ + part000_GRAVITY,
                                    !.vx = Mul(@, part000_FRICTION)]
         IN [s EXCEPT !.player = part000_substeps(p1, s.walls, s.game.worldWidth, 0)]

part000_gameOverTest(s) ==
    IF s.player.state = "air" /\ part000_fell(s) THEN part000_gameOver(s) ELSE s

\* update: the camera follows the player upward only
part000_cameraUngated(s) ==
    [s EXCEPT !.camera.y =
        @ + Mul((s.player.y - Ratio(6000, s.game.worldHeight)) - @, 100)]

part000_camera(s) ==
    IF s.player.y - Ratio(6000, s.game.worldHeight) < s.camera.y
    THEN [s EXCEPT !.camera.y =
             @ + Mul((s.player.y - Ratio(6000, s.game.worldHeight)) - @, 100)]
    ELSE s

\* update: the score
part000_score(s) ==
    IF (-s.player.y) \div 100 > s.game.score
    THEN [s EXCEPT !.game.score = (-s.player.y) \div 100,
                   !.dom.scoreEl = (-s.player.y) \div 100]
    ELSE s

\* update: generation and cleanup
part000_gen(s) ==
    IF s.camera.y < s.levelGen.highestY + 10000 THEN part000_generateNextWall(s)
    ELSE s

part000_cleanup(s) ==
    [s EXCEPT !.walls = SelectSeq(@, LAMBDA w :
        w.y < s.camera.y + s.game.worldHeight + 2000)]

\* update(dt): dt is not read
part000_update(s) ==
    IF s.game.state # "playing" THEN s
    ELSE part000_cleanup(part000_gen(part000_score(part000_camera(
             part000_gameOverTest(part000_physics(s))))))

\* messages of the controller: a tilt that aims the jump upward, at the
\* largest magnitude it sends, and the jump
Part000Messages ==
    {[type |-> "tilt", vector |-> Vector(100, 2)],
     [type |-> "jump"]}

\* initHost() and startGame(): the world built by resize(), the game playing
InitPart000 ==
    \E win \in WindowSizes, seed \in Seeds :
        LET c == Constructed(win, seed)
            s == [part000_resize([c EXCEPT !.player.radius = part000_radius])
                     EXCEPT !.game.state = "playing", !.net.conn = "open"]
        IN /\ game = s.game /\ player = s.player /\ tide = s.tide
           /\ camera = s.camera /\ walls = s.walls /\ levelGen = s.levelGen
           /\ input = s.input /\ net = s.net /\ dom = s.dom /\ env = s.env
           /\ hist = NoHist(1, FALSE)

\* gameLoop(timestamp): update(dt)
Part000Frame ==
    /\ hist.frames < MaxPart000Frames
    /\ Becomes(part000_update(Fresh))
    /\ hist' = [hist EXCEPT !.ev = "frame", !.frames = @ + 1,
                            !.resets = IF part000_fell(part000_physics(Fresh))
                                          /\ part000_physics(Fresh).player.state = "air"
                                       THEN @ + 1 ELSE @]

\* conn.on('data')
Part000Receive ==
    /\ \E data \in Part000Messages : 
         /\ Becomes(part000_onData(Fresh, data))
         /\ hist' = [hist EXCEPT !.ev = data.type]

\* the 'resize' listener of the window
Part000Resize ==
    /\ hist.resizes < MaxResizes
    /\ \E win \in WindowSizes :
         /\ win # env.win
         /\ Becomes(part000_resize([Fresh EXCEPT !.env.win = win]))
         /\ hist' = [hist EXCEPT !.ev = "window", !.resizes = @ + 1]

NextPart000 == Part000Frame \/ Part000Receive \/ Part000Resize

SpecPart000 == InitPart000 /\ [][NextPart000]_vars

-----------------------------------------------------------------------------
(* Properties *)

\* the last handler sent a vibrate message
VibrateSent == \E i \in DOMAIN net.sent : net.sent[i].type = "vibrate"

\* floor(-y / d) of the lowest player.y / scoreDivisor seen at a score step
BestHeight == (-hist.best[1]) \div hist.best[2]

\* C1: the game state changes only along start -> playing, playing ->
\* gameover and gameover -> playing; gameover is entered only by a frame
\* (Game.update) and is left only through resetGame, which the restart click
\* and the restart message call.
C1_StateTransitions ==
    [][/\ game'.state # game.state =>
            <<game.state, game'.state>> \in {<<"start", "playing">>,
                                             <<"playing", "gameover">>,
                                             <<"gameover", "playing">>}
       /\ (game.state # "gameover" /\ game'.state = "gameover") =>
            (game.state = "playing" /\ hist'.ev = "frame")
       /\ (game.state = "gameover" /\ game'.state # "gameover") =>
            hist'.ev \in {"click", "restart"}]_vars

\* C2: a restart message that arrives while the host is in gameover resets the
\* simulation: the host ends in state playing with score 0, the game-over
\* screen hidden and the player back in the air.
C2_RestartMessageResets ==
    [][(game.state = "gameover" /\ hist'.ev = "restart") =>
          /\ game'.state = "playing"
          /\ game'.score = 0
          /\ dom'.gameOverHidden
          /\ player'.state = "air"]_vars

\* C3: in gameover the simulation (player position, velocity and state,
\* tide.y, camera.y, score, walls) is what it was when gameOver() was called.
C3_FrozenInGameover ==
    game.state = "gameover" => Physics(State) = hist.frozen

\* C4 as stated: once a score step has run, the score equals
\* floor(-min(player.y seen so far) / scoreDivisor).
C4_ScoreIsBestHeight ==
    hist.best # <<>> => game.score = BestHeight

\* C4: the score never decreases except when resetGame sets it to 0, and it
\* equals max(0, floor(-min(player.y) / scoreDivisor)), the minimum taken over
\* the score steps since the score was last set to 0 (0 before the first one).
C4_ScoreMonotoneFromZero ==
    [][/\ hist'.ev # "click" => game'.score >= game.score
       /\ hist'.ev = "click" => game'.score = 0
       /\ game'.score = IF hist'.best = <<>> THEN 0
                        ELSE Max(0, (-hist'.best[1]) \div hist'.best[2])]_vars

\* a score above 0 that a frame has just raised
C4_Witness ==
    /\ hist.ev = "frame" /\ game.score > 0 /\ hist.best # <<>>
    /\ game.score = BestHeight

\* C5: Player.jump (called by every jump event whose callback does not throw
\* before the call) is accepted exactly when the player is stuck or sticky;
\* called in state air it returns false and leaves the player unchanged.
C5_JumpOnlyFromStuck ==
    [][(hist'.ev = "jump" /\ ~hist'.threw) =>
          /\ hist'.jumped <=> player.state \in {"stuck", "sticky"}
          /\ player.state = "air" => (~hist'.jumped /\ player' = player)]_vars

\* a jump event that found the player in air and was rejected
C5_Witness ==
    hist.ev = "jump" /\ ~hist.jumped /\ player.state = "air"

\* the force of a jump with the stored tilt vector
JumpForce == Min(input.tiltVector.magnitude * game.jumpForceMult, game.maxJumpForce)

\* the stored tilt vector is the one of the example: magnitude 100, angle 0
ExampleTilt == input.tiltVector.magnitude = 100 /\ input.tiltVector.angle = 0

\* C6 as stated: in the example (tilt of magnitude 100 and angle 0) the force
\* of the accepted jump is clamped at maxForce: vx = -maxJumpForce, vy = 0.
C6_ExampleClamped ==
    [][(hist'.ev = "jump" /\ hist'.jumped /\ ExampleTilt) =>
          (player'.vx = -game.maxJumpForce /\ player'.vy = 0)]_vars

\* C6: an accepted jump sets force = min(magnitude * forceMult, maxForce), the
\* velocity to (cos(angle + pi) * force, sin(angle + pi) * force) and the state
\* to air; with a tilt of magnitude 100 and angle 0 the force is
\* 100 * forceMult = 0.07 * worldWidth, below maxForce = 0.15 * worldWidth (not
\* clamped), and the result is vx = -force, vy = 0.
C6_JumpFormula ==
    [][(hist'.ev = "jump" /\ hist'.jumped) =>
          /\ player'.vx = Mul(JumpForce, Cos(input.tiltVector.angle + PI))
          /\ player'.vy = Mul(JumpForce, Sin(input.tiltVector.angle + PI))
          /\ player'.state = "air"
          /\ ExampleTilt =>
                /\ JumpForce = 100 * game.jumpForceMult
                /\ JumpForce = Ratio(700, game.worldWidth)
                /\ JumpForce < game.maxJumpForce
                /\ player'.vx = -JumpForce
                /\ player'.vy = 0]_vars

\* an accepted jump with the tilt of the example, the force not clamped
C6_Witness ==
    /\ hist.ev = "jump" /\ hist.jumped /\ ExampleTilt
    /\ player.state = "air" /\ player.vy = 0
    /\ player.vx = -Ratio(700, game.worldWidth)

\* C7: whatever tilt vector the host has received, the speed of the player
\* right after an accepted jump is at most maxJumpForce.
C7_SpeedAtMostMaxForce ==
    [][(hist'.ev = "jump" /\ hist'.jumped) =>
          player'.vx * player'.vx + player'.vy * player'.vy
              <= game.maxJumpForce * game.maxJumpForce]_vars

\* C8: the handler sends a vibrate message only when it handles a jump event
\* whose Player.jump call returned true; a jump event rejected in air sends
\* none.
C8_VibrateOnlyWhenJumped ==
    VibrateSent => (hist.ev = "jump" /\ hist.jumped)

\* an accepted jump over the open connection, its vibrate message sent
C8_Witness ==
    hist.ev = "jump" /\ hist.jumped /\ net.conn = "open" /\ VibrateSent

C10_RejectedJumpNotLost ==
    hist.missed = 0

\* C11: no handler ends in an exception: after a tilt message without a vector
\* neither a jump event nor a frame fails.
C11_NoHandlerFails ==
    ~hist.threw

\* C12: the stored tilt vector is the vector of the tilt message received last
\* (the zero vector before the first one), and an accepted jump launches with
\* exactly that vector's magnitude and angle.
C12_LastWriteWins ==
    [][/\ input'.tiltVector = hist'.lastTilt
       /\ (hist'.ev = "jump" /\ hist'.jumped) =>
            /\ player'.vx = Mul(Min(hist.lastTilt.magnitude * game.jumpForceMult,
                                    game.maxJumpForce),
                                Cos(hist.lastTilt.angle + PI))
            /\ player'.vy = Mul(Min(hist.lastTilt.magnitude * game.jumpForceMult,
                                    game.maxJumpForce),
                                Sin(hist.lastTilt.angle + PI))]_vars

\* a jump launched downwards by the tilt received last, after an earlier tilt
\* had launched the player upwards, above y = 0
C12_Witness ==
    /\ hist.ev = "jump" /\ hist.jumped
    /\ hist.lastTilt = Vector(300, 6) /\ player.vy > 0
    /\ game.score > 0

\* the wall loop of the last step resolved wall k and no other
ResolvedOnly(k) == hist.ev = "collide" /\ hist.resolved = <<k>>

\* C13: right after Wall.resolve, Wall.checkCollision on the same obstacle
\* returns null: the distance from the player's center to the rectangle is
\* not below the radius.
C13_NoOverlapAfterResolve ==
    ResolvedOnly(1) => ~checkCollision(walls[1], player).hit

\* C14: the wall loop of a substep calls Wall.resolve on at most one obstacle.
C14_OneResolvePerSubstep ==
    hist.ev = "collide" => Len(hist.resolved) <= 1

\* the y-component of the contact normal of wall w and player p, in 1/1000
NormalY(w, p) ==
    IF checkCollision(w, p).dist = 0 THEN -1000
    ELSE Quot(checkCollision(w, p).dy * 1000, checkCollision(w, p).dist)

\* the wall loop of this step resolves the first wall, of a type other than
\* bouncy (the loop ends there)
SticksToFirst ==
    hist'.ev = "collide" /\ hist'.resolved = <<1>> /\ walls[1].type # "bouncy"

\* C15 as stated: resolving a collision with a non-bouncy obstacle zeroes the
\* velocity; with a normal whose y-component exceeds 0.5 the state becomes
\* sticky, stickPoint.y the obstacle's bottom edge and impactSpeed the speed
\* before the impact; otherwise the state becomes stuck.
C15_StickyUnderAnyWall ==
    [][SticksToFirst =>
          /\ player'.vx = 0 /\ player'.vy = 0
          /\ IF NormalY(walls[1], player) > 500
             THEN /\ player'.state = "sticky"
                  /\ player'.stickPoint.y = walls[1].y + walls[1].h
                  /\ player'.impactSpeed * player'.impactSpeed
                       = player.vx * player.vx + player.vy * player.vy
             ELSE player'.state = "stuck"]_vars

\* C15: resolving a collision with a non-bouncy obstacle zeroes the velocity;
\* when the normal's y-component exceeds 0.5 and the obstacle's type is normal
\* the state becomes sticky, stickPoint the player's x after depenetration and
\* the obstacle's bottom edge, and impactSpeed |vy| before the impact; in every
\* other case (a vertical wall included) the state becomes stuck and
\* stickPoint and impactSpeed stay as they were.
C15_StickyUnderNormalWall ==
    [][SticksToFirst =>
          /\ player'.vx = 0 /\ player'.vy = 0
          /\ IF NormalY(walls[1], player) > 500 /\ walls[1].type = "normal"
             THEN /\ player'.state = "sticky"
                  /\ player'.stickPoint = [x |-> player'.x,
                                           y |-> walls[1].y + walls[1].h]
                  /\ player'.impactSpeed = Abs(player.vy)
             ELSE /\ player'.state = "stuck"
                  /\ player'.stickPoint = player.stickPoint
                  /\ player'.impactSpeed = player.impactSpeed]_vars

\* the player sticky under the normal platform after an impact whose vertical
\* speed was 2000
C15_Witness ==
    /\ ResolvedOnly(1) /\ walls[1].type = "normal"
    /\ player.state = "sticky" /\ player.impactSpeed = 2000
    /\ player.stickPoint.y = walls[1].y + walls[1].h
    /\ player.vx = 0 /\ player.vy = 0

\* C16: resolving a collision with a bouncy obstacle strictly increases the
\* speed of a moving player, |v'|^2 = 1.21 |v|^2, and leaves the player's state
\* as it is.
C16_BounceGainsSpeed ==
    [][(/\ hist'.ev = "collide" /\ hist'.resolved = <<1>>
        /\ walls[1].type = "bouncy"
        /\ <<player.vx, player.vy>> # <<0, 0>>) =>
          /\ player'.vx * player'.vx + player'.vy * player'.vy
               > player.vx * player.vx + player.vy * player.vy
          /\ 100 * (player'.vx * player'.vx + player'.vy * player'.vy)
               = 121 * (player.vx * player.vx + player.vy * player.vy)
          /\ player'.state = player.state]_vars

\* the velocity (1000, 0) reflected at a corner of the bouncy platform (normal
\* (0.6, 0.8)) and amplified: (280, -960) * 1.1
C16_Witness ==
    /\ ResolvedOnly(1) /\ walls[1].type = "bouncy"
    /\ player.vx = 308 /\ player.vy = -1056

\* Game.loop's call of resize() finds the window as it was
WindowKept == env.win.w = game.lastWinW /\ env.win.h = game.lastWinH

\* player p rests against a wall of ws that is not bouncy: its center is no
\* farther from the wall than its radius (within one world unit; resolve pushes
\* a center that is inside the wall by the radius only)
Touches(ws, p) ==
    \E i \in DOMAIN ws :
        /\ ws[i].type # "bouncy"
        /\ Abs(checkCollision(ws[i], p).dx) <= p.radius + 10
        /\ Abs(checkCollision(ws[i], p).dy) <= p.radius + 10
        /\ Sqrt(checkCollision(ws[i], p).dx * checkCollision(ws[i], p).dx
                + checkCollision(ws[i], p).dy * checkCollision(ws[i], p).dy)
             <= p.radius + 10

\* a stuck player keeps state, position and velocity
StuckStays ==
    /\ player'.state = "stuck"
    /\ player'.x = player.x /\ player'.y = player.y
    /\ player'.vx = player.vx /\ player'.vy = player.vy

C18_GapAboveCursor ==
    [][hist'.ev = "generate" =>
          /\ Len(walls') = Len(walls) + 1
          /\ walls'[Len(walls')].y < levelGen.highestY
          /\ levelGen.highestY - walls'[Len(walls')].y
                >= Ratio(WALL_GAP_MIN, game.worldWidth)
          /\ levelGen.highestY - walls'[Len(walls')].y
                <= Ratio(WALL_GAP_MIN + WALL_GAP_RANGE, game.worldWidth)
          /\ levelGen'.highestY = walls'[Len(walls')].y]_vars

\* a generated obstacle at the smallest gap (Math.random() returned 0) above
\* the obstacle generated before it, the cursor on it
C18_Witness ==
    /\ hist.ev = "generate"
    /\ walls[Len(walls) - 1].y - walls[Len(walls)].y
         = Ratio(WALL_GAP_MIN, game.worldWidth)
    /\ levelGen.highestY = walls[Len(walls)].y

\* C19: every obstacle of the live list lies within the world horizontally,
\* 0 <= x and x + w <= worldWidth, in every reachable state.
C19_WallsOnScreen ==
    \A i \in DOMAIN walls :
        walls[i].x >= 0 /\ walls[i].x + walls[i].w <= game.worldWidth

\* during play, after a window resize has rescaled the obstacles, with a
\* bouncy and a vertical obstacle in the list, one of them at the right edge
C19_Witness ==
    /\ game.state = "playing" /\ hist.resizes > 0 /\ hist.ev = "frame"
    /\ WindowKept
    /\ \E i \in DOMAIN walls : walls[i].type = "bouncy"
    /\ \E i \in DOMAIN walls : walls[i].type = "vertical"
    /\ \E i \in DOMAIN walls :
          walls[i].x > 0 /\ game.worldWidth - (walls[i].x + walls[i].w) <= 10

\* C20: during play, with no reset and no resize, tide.y never increases from
\* one state to the next, and it strictly decreases in every frame with dt > 0
\* (every frame but the first, whose dt is 0).
C20_TideRises ==
    [][(game.state = "playing" /\ WindowKept) =>
          /\ tide'.y <= tide.y
          /\ (hist'.ev = "frame" /\ game.lastTime # 0) => tide'.y < tide.y]_vars

\* the third frame of a game in its first window: the tide has risen from
\* where resetEntities put it and the game goes on
C20_Witness ==
    /\ game.state = "playing" /\ hist.ev = "frame"
    /\ hist.frames >= 3 /\ hist.resizes = 0
    /\ tide.y < game.worldHeight + Ratio(TIDE_START_OFFSET, game.worldHeight)

\* the dt of the frame this step runs: 0 in the first frame, else the time
\* since the frame before, at most 100 ms
FrameDt == IF game.lastTime = 0 THEN 0 ELSE Min(env'.now - game.lastTime, 6)

\* in state s (after the frame's resize) the player's lower edge is below the
\* tide as updated by dt, plus the leeway of 0.03 world widths
PastTide(s, dt) ==
    s.player.y + s.player.radius
        > Tide_update(s.tide, dt, s.player.y, s.game.worldWidth,
                      s.game.worldHeight).y
          + Ratio(TIDE_COLLISION_THRESHOLD, s.game.worldWidth)

\* C21: a playing frame ends in game over if and only if, after its tide
\* update and before its physics step, player.y + player.radius >
\* tide.y + 0.03 * worldWidth.
C21_TideDeathIff ==
    [][(game.state = "playing" /\ hist'.ev = "frame") =>
          (game'.state = "gameover" <=> PastTide(resize(State), FrameDt))]_vars

\* the frame that ended the game: at its call of gameOver() the player's lower
\* edge was below the tide by more than the leeway
C21_Witness ==
    /\ hist.ev = "frame" /\ game.state = "gameover" /\ hist.frames >= 2
    /\ hist.frozen # <<>>
    /\ hist.frozen.py + player.radius
         > hist.frozen.tideY + Ratio(TIDE_COLLISION_THRESHOLD, game.worldWidth)

\* maxCamY of Game.update: tide.y - worldHeight + 0.1 * worldHeight
CameraLimit ==
    tide.y - game.worldHeight + Ratio(CAMERA_LIMIT_PADDING, game.worldHeight)

\* C22: camera.y never exceeds tide.y - worldHeight + 0.1 * worldHeight, at the
\* end of every frame and in every state between frames, after a reset or a
\* resize included.
C22_CameraAboveTide == camera.y <= CameraLimit

\* a playing frame, after a resize, that left the camera on the limit: the
\* clamp acted
C22_Witness ==
    /\ hist.ev = "frame" /\ game.state = "playing" /\ hist.resizes > 0
    /\ camera.y = CameraLimit /\ camera.y # 0

\* b is a times the ratio of the new to the old world width (cut to a whole
\* number of tenths of a unit, as Scale cuts it)
ScaledBy(a, b) ==
    LET g == Gcd(game'.worldWidth, game.worldWidth)
        num == game'.worldWidth \div g
        den == game.worldWidth \div g
    IN Abs(b * den - a * num) < den

C24_ConstantsFollowWidth ==
    /\ 1000 * player.radius = 25 * game.worldWidth
    /\ 10000 * game.gravity = 6 * game.worldWidth
    /\ 100 * game.maxJumpForce = 15 * game.worldWidth
    /\ 10000 * game.jumpForceMult = 7 * game.worldWidth
    /\ 1000 * tide.speed = game.worldWidth

\* a game played on after a window resize: the frame that followed it has set
\* the world to its new width
C24_Witness ==
    /\ game.state = "playing" /\ hist.ev = "frame" /\ hist.frames >= 2
    /\ hist.resizes > 0 /\ WindowKept
    /\ 1000 * player.radius = 25 * game.worldWidth

\* the world as resetEntities builds it for the current world size: the player
\* at (W/2, H - 150 px) at rest in the air, the tide at 1.4 H, the camera at 0,
\* the floor over the full width followed by 15 obstacles, each above the one
\* before, the cursor on the last
FreshWorld ==
    /\ 2 * player.x = game.worldWidth
    /\ player.y = game.worldHeight - 1500
    /\ player.vx = 0 /\ player.vy = 0 /\ player.state = "air"
    /\ Abs(10 * tide.y - 14 * game.worldHeight) < 10
    /\ camera.y = 0
    /\ Len(walls) = 16
    /\ walls[1].x = 0 /\ walls[1].w = game.worldWidth /\ walls[1].type = "normal"
    /\ 10 * (game.worldHeight - walls[1].y) = game.worldWidth
    /\ \A i \in 2 .. Len(walls) : walls[i].y < walls[i - 1].y
    /\ levelGen.highestY = walls[Len(walls)].y

\* C25: the state resetGame leaves, which is the state the next frame finds,
\* is wholly reset: playing, score 0, the game-over screen hidden, the window
\* taken into account, and the world as resetEntities builds it.
C25_ResetIsWhole ==
    hist.ev = "click" =>
        /\ game.state = "playing" /\ game.score = 0 /\ dom.scoreEl = 0
        /\ dom.gameOverHidden
        /\ WindowKept
        /\ FreshWorld

\* a restart of a lost game in a window that was resized before the click
C25_Witness ==
    /\ hist.ev = "click" /\ hist.resizes > 0 /\ hist.frames >= 3
    /\ game.state = "playing" /\ Len(walls) = 16 /\ camera.y = 0

\* C26: two simulations that agree on the obstacle list and on the player's
\* x, y, vx, vy and state, and receive the same messages, frame deltas and
\* random draws, agree from then on in the player's x, y, vx, vy and state,
\* in the score and in the game state, whatever their other fields were.
C26_RestoredRunAgrees ==
    (hist.twin # <<>> /\ hist.ev # "init") =>
        /\ hist.twin.player.x = player.x /\ hist.twin.player.y = player.y
        /\ hist.twin.player.vx = player.vx /\ hist.twin.player.vy = player.vy
        /\ hist.twin.player.state = player.state
        /\ hist.twin.game.score = game.score
        /\ hist.twin.game.state = game.state

\* the gameover messages among sent
GameoverSent(sent) == SelectSeq(sent, LAMBDA m : m.type = "gameover")

\* C27: every step into gameover sends exactly one gameover message when the
\* connection is open (and none when it is not), and no other step sends one:
\* none is sent while the game stays in gameover, nor by the restart.
C27_GameoverSentOnce ==
    [][IF game.state # "gameover" /\ game'.state = "gameover"
       THEN Len(GameoverSent(net'.sent)) = IF net.conn = "open" THEN 1 ELSE 0
       ELSE Len(GameoverSent(net'.sent)) = 0]_vars

\* the frame that ended the game has sent its one message over the open
\* connection
C27_Witness ==
    /\ hist.ev = "frame" /\ game.state = "gameover" /\ net.conn = "open"
    /\ net.sent = <<[type |-> "gameover"]>>

\* C28: at the end of the physics step of every playing frame the player is
\* inside the world horizontally, radius <= player.x <= worldWidth - radius.
C28_PlayerInsideWorld ==
    hist.ev = "physics" =>
        /\ player.radius <= player.x
        /\ player.x <= game.worldWidth - player.radius

\* C29: whatever the non-decreasing time stamps of the frames, a gap of ten
\* seconds and the first frame included, the timeScale Game.loop passes to
\* update is within [0, 6], that is dt within [0, 100] ms.
C29_TimeScaleCapped ==
    hist.ev = "clock" => (0 <= hist.timeScale /\ hist.timeScale <= 6)

\* the second frame, ten seconds after the first: dt is cut to 100 ms
C29_Witness ==
    /\ hist.ev = "clock" /\ hist.frames = 2 /\ env.now = 601
    /\ hist.timeScale = 6

\* the factor Player.updatePhysics applies to the vy of sticky player p in one
\* tick: Math.max(0.5, drag), drag the clamped base less the tension, in 1/1000
StickyFactor(p) ==
    Max(500, Min(980, Max(850, STICKY_DRAG + Quot(p.impactSpeed, 2)))
             - Quot(Abs(p.y - p.stickPoint.y), 5))

\* C30: in every playing frame that finds the player sticky (the window
\* unchanged) the drag factor is within [0.5, 0.98], and |vy| after the frame
\* is at most |vy + 0.1 * gravity * dt|: vy grows by nothing but the gravity
\* term.
C30_StickyDragDamps ==
    [][(/\ game.state = "playing" /\ hist'.ev = "frame"
        /\ player.state = "sticky" /\ WindowKept) =>
          /\ 500 <= StickyFactor(player) /\ StickyFactor(player) <= 980
          /\ Abs(player'.vy)
               <= Abs(player.vy + Quot(game.gravity * FrameDt, 10))]_vars

\* a sticky player oozing down: after a frame it is still sticky and moves
C30_Witness ==
    /\ game.state = "playing" /\ hist.ev = "frame"
    /\ player.state = "sticky" /\ player.vy > 0
    /\ player.y > player.stickPoint.y

\* C31: at the end of every playing frame the generator cursor is at or above
\* the top of the viewport, levelGen.highestY <= camera.y.
C31_CursorAboveView ==
    (hist.ev = "frame" /\ game.state = "playing") => levelGen.highestY <= camera.y

\* the tide's distance to the player beyond half a world height, or 0
CatchUpExcess ==
    Max(0, (tide.y - player.y) - Quot(game.worldHeight, 2))

\* C32: a playing frame (the window unchanged) lowers tide.y by exactly
\* (speed + max(0, (tide.y - player.y) - 0.5 * worldHeight) * 0.005) * dt.
C32_TideCatchUp ==
    [][(game.state = "playing" /\ hist'.ev = "frame" /\ WindowKept) =>
          tide.y - tide'.y
            = (tide.speed + Mul(CatchUpExcess, TIDE_CATCHUP)) * FrameDt]_vars

\* a frame with dt > 0 that found the player in the air more than half a world
\* height above the tide, and left it there
C32_Witness ==
    /\ game.state = "playing" /\ hist.ev = "frame" /\ hist.frames >= 2
    /\ player.state = "air"
    /\ CatchUpExcess > 1000

\* C33: in the earlier variant the camera never moves downward within a game:
\* every step that is not the reset of a game over leaves cameraY where it was
\* or above, and cameraY changes only in a frame whose target,
\* player.y - 0.6 * worldHeight, is above the cameraY the frame began with.
C33_CameraOnlyUp ==
    [][hist'.resets = hist.resets =>
          /\ camera'.y <= camera.y
          /\ camera'.y # camera.y =>
                /\ hist'.ev = "frame"
                /\ player'.y - Ratio(6000, game'.worldHeight) < camera.y]_vars

\* the camera has followed a climb and the player is now falling with the
\* target below the camera, in the window the game began with
C33_Witness ==
    /\ hist.ev = "frame" /\ hist.resizes = 0
    /\ camera.y < 0
    /\ player.state = "air" /\ player.vy > 0
    /\ player.y - Ratio(6000, game.worldHeight) > camera.y

\* C34: the obstacle list is ordered by strictly decreasing y, floor first, and
\* while it is not empty (pruning removes from the floor end, so the obstacle
\* generated last is the one that leaves last) the generator's cursor is the
\* y of its last obstacle, the smallest y of the list.
StrictlyHigher(ws) == \A i \in 1 .. Len(ws) - 1 : ws[i + 1].y < ws[i].y

C34_WallsOrdered ==
    /\ StrictlyHigher(walls)
    /\ walls # <<>> => /\ walls[Len(walls)].y = levelGen.highestY
                        /\ \A i \in 1 .. Len(walls) : walls[i].y >= levelGen.highestY

\* after a frame that generated an obstacle and pruned the floor, and a resize
C34_Witness ==
    /\ game.state = "playing" /\ hist.ev = "frame" /\ hist.resizes > 0
    /\ Len(walls) > 1
    /\ walls[1].w # game.worldWidth
    /\ hist.frames >= 3

\* C35: when frames keep arriving and no jump is accepted any more, the game
\* reaches game over, whether the player is stuck, sticky or in the air.
C35_InactionEnds == <>(game.state = "gameover")

\* game over reached by the tide with the player at rest after its last jump
C35_Witness ==
    /\ game.state = "gameover" /\ hist.jumps = MaxIdleJumps
    /\ player.state \in {"stuck", "sticky"}

\* Math.floor(-player.y / scoreDivisor) in state s
ScoreHeight(s) == (-s.player.y) \div s.game.scoreDivisor

\* the state after Game.resize() when the window has become win
Resized(win) == resize([Fresh EXCEPT !.env.win = win])

\* the ratio of the resize to win divides player.y and scoreDivisor without
\* a remainder, so that the scaled values carry no rounding
ScalesExactly(win) ==
    LET W == Resized(win).game.worldWidth
        num == W \div Gcd(W, game.worldWidth)
        den == game.worldWidth \div Gcd(W, game.worldWidth)
    IN /\ (Abs(player.y) * num) % den = 0
       /\ (game.scoreDivisor * num) % den = 0

\* C36: a resize during play does not change floor(-player.y / scoreDivisor):
\* in every playing state, for every other window size, the height is the
\* same before and after Game.resize() (where the scaling carries no rounding;
\* otherwise it moves by at most one), and after a frame that follows a resize
\* the score is still at least the height of the player.
C36_ResizeKeepsHeight ==
    /\ game.state = "playing" =>
          \A win \in WindowSizes :
             /\ ScalesExactly(win) => ScoreHeight(Resized(win)) = ScoreHeight(Fresh)
             /\ Abs(ScoreHeight(Resized(win)) - ScoreHeight(Fresh)) <= 1
    /\ (hist.ev = "frame" /\ hist.resizes > 0) => game.score >= ScoreHeight(Fresh)

\* a playing state with a score above 0 whose height a resize to another
\* window keeps without rounding, after a frame that followed a resize
C36_Witness ==
    /\ game.state = "playing" /\ hist.ev = "frame" /\ hist.resizes > 0
    /\ game.score > 0 /\ game.score = ScoreHeight(Fresh)
    /\ \E win \in WindowSizes :
          /\ Resized(win).game.worldWidth # game.worldWidth
          /\ ScalesExactly(win)
          /\ ScoreHeight(Resized(win)) = game.score

-----------------------------------------------------------------------------
(* A jump in the instant before the frame that ends the game *)

\* a frame of the loop during play, the player in the air or past its first
\* jump: Game.update(timeScale)
LastFrame ==
    /\ game.state = "playing"
    /\ hist.jumps > 0 \/ player.state = "air"
    /\ \E d \in IdleDeltas : Becomes(Game_update(Fresh, d))
    /\ hist' = [hist EXCEPT !.ev = "frame"]

\* the first jump, as soon as the player has come to rest
FirstJump ==
    /\ game.state = "playing" /\ hist.jumps = 0
    /\ onJump(Fresh).jumped
    /\ Becomes(onJump(Fresh).state)
    /\ hist' = [hist EXCEPT !.ev = "jump", !.jumped = TRUE, !.jumps = 1]

\* the second jump, when the tide will have reached the player in the next
\* frame
LastJump ==
    /\ game.state = "playing" /\ hist.jumps = 1
    /\ \E d \in IdleDeltas : PastTide(Fresh, d)
    /\ onJump(Fresh).jumped
    /\ Becomes(onJump(Fresh).state)
    /\ hist' = [hist EXCEPT !.ev = "jump", !.jumped = TRUE, !.jumps = 2]

NextLast == LastFrame \/ FirstJump \/ LastJump

SpecLast == InitIdle /\ [][NextLast]_vars

\* C37: from the call of gameOver() until the next restart the score equals
\* the final score written on the game-over screen, the end of the frame that
\* called gameOver() included.
C37_FinalScoreIsScore ==
    game.state = "gameover" => dom.finalScoreEl = game.score

=============================================================================
